---- MODULE Spec2Model ----
(***************************************************************************)
(* A model of mcp-as-a-service: the MCPProxy child registry                *)
(* (src/src/mcp-proxy.ts), the SSE session handler (sse-handler.ts, kept   *)
(* as src/unnamed/part_001) and the Content-Length JSON-RPC framer/parser  *)
(* (mcp/jsonrpc.ts, kept as src/unnamed/part_006).                         *)
(*                                                                         *)
(* Scheduling follows the JavaScript event loop: a handler runs to its     *)
(* next await without interruption; a continuation queued as a microtask   *)
(* (the await of getOrCreateServer's already resolved promise) runs before *)
(* any timer, process event or new request, though continuations of other  *)
(* handlers may run in between.                                            *)
(*                                                                         *)
(* Several specifications share the actions; each one's Init fixes, in     *)
(* lim, how many requests, messages, pings and clock ticks it lets happen. *)
(***************************************************************************)
EXTENDS Integers, Sequences, FiniteSets, TLC

\* ---------------------------------------------------------------- bounds
\* Spec: the SSE sessions, the children and the fanout, the clock at rest.
CoreClients == 2
CoreServerIds == 2
CoreMsgs == 2
\* SpecTimed: one session and one POST with the clock running.
TimedClients == 1
TimedPosts == 1
TimedServerIds == 1
TimedPings == 1
TimedTicks == 7
\* SpecRegistry: POST requests, process events and the reaper.
RegPosts == 3
RegServerIds == 1
RegTicks == 8
\* SpecCap: how many POST requests are in their handlers at once.
CapInflight == 1
McpPosts == 2
MaxNameLen == 3
MaxSegments == 2
MaxShortValueLen == 2
EdgeClients == 1
EdgePosts == 1
SendPosts == 2
SendServerIds == 2
SendTicks == 3
SendCalls == 2
\* SpecFrames: sessions of one child that emits, with keepalive pings.
FrameClients == 2
FrameMsgs == 2
FramePings == 1
MaxInstances == 2
MaxStartTime == 5
MaxValidations == 3
MaxAnswers == 3
\* SpecParser: the JSON values framed (strings of so many characters, arrays
\* of so many items, objects of so many members).
MaxStrLen == 1
MaxArrLen == 2
MaxMembers == 1
\* The calls of feed are counted up to this many.
MaxFeedsCounted == 3
\* SpecHash: the query parameters of a request.
MaxKeyLen == 1
MaxValueLen == 1
MaxParams == 2

\* ------------------------------------------------------ program constants
\* setInterval(() => this.cleanupInactiveServers(), 5 * 60 * 1000)
ReapInterval == 5 * 60 * 1000
\* const maxInactivity = 30 * 60 * 1000
MaxInactivity == 30 * 60 * 1000
\* setTimeout(cleanup, 30 * 60 * 1000)
SessionTimeout == 30 * 60 * 1000
\* SERVER_CONFIG.maxConcurrentProcesses
MaxConcurrentProcesses == 10

\* SERVER_CONFIG.maxPackageNameLength, maxParamKeyLength, maxParamValueLength
MaxPackageNameLength == 200
MaxParamKeyLength == 100
MaxParamValueLength == 1000
\* validateArgs: the characters kept of a token, the tokens kept
MaxArgLength == 100
MaxArgs == 20

\* validatePackage: the fewest downloads of last month that admit an npm
\* package, and the description length a Python package must exceed.
MinDownloads == 100
MinDescription == 10

\* MCP_PROTOCOL_VERSION and the MCPErrorCodes the handler uses
MCP_PROTOCOL_VERSION == "2024-11-05"
METHOD_NOT_FOUND == -32601
INVALID_PARAMS == -32602
INTERNAL_ERROR == -32603
UNSUPPORTED_PROTOCOL_VERSION == -32000
SERVER_NOT_READY == -32006

VARIABLES
  now,       \* Date.now(), in ms
  servers,   \* MCPProxy.servers: serverId -> pid of the record stored, 0 if none
  child,     \* every MCPServerProcess record ever created, by pid
  nextPid,   \* pid of the next process spawn() creates
  sess,      \* the handleSSE invocations, by clientId
  nextClient,\* the next clientId (uuidv4 never repeats)
  post,      \* the handleMessage invocations
  lim,       \* the bounds of the specification in force; never changes
  sent,      \* the values JsonRpcFramer.encode was given, in order
  wire,      \* the encoded bytes not yet fed to the parser
  buffer,    \* JsonRpcParser.buffer
  received,  \* the values the parser has emitted as 'message', in order
  feeds,     \* the number of calls of feed so far, up to MaxFeedsCounted
  written,   \* what the child wrote to stdout, by segment: [kind, bytes]
  requests,  \* the requests whose serverId is computed: [pkg, params]
  spawnedWith, \* serverId -> the params of the request that spawned its child
  handed,    \* request -> the params its child was spawned with
  sendCalls, \* the calls of MCPProxy.send made from outside handleMessage:
             \* <<serverId, "sent" or "threw">>, in order
  mcp,       \* MCPHandler: isInitialized, clientCapabilities, protocolVersion
  reply,     \* the response to the last POST /mcp, if any: <<response>>
  validated, \* the last call of validatePackageName, if any: <<call>>
  projected, \* the last parameter map checked and projected, if any
  downloadCache, \* the Map validatePackage is given: package name -> verdict
  validations,   \* the calls of validatePackage so far: name, verdict, probes
  built,     \* the last command built for a spawn, if any: <<call>>
  mcpProcesses,  \* ProcessManager.mcpProcesses: the processIds registered
  started,   \* the calls of startMCPServer so far, in order
  instances, \* InstanceManager.instances: id -> the instance stored
  answers    \* what stop(id) and call(id) answered so far, in order

parserVars == <<sent, wire, buffer, received, feeds, written>>
hashVars == <<requests, spawnedWith, handed>>
pureVars == <<parserVars, hashVars>>
mcpVars == <<mcp, reply>>
libVars == <<downloadCache, validations, built, mcpProcesses, started,
             instances, answers>>
edgeVars == <<validated, projected, libVars>>
\* Everything but the state of the library classes.
proxyVars == <<now, servers, child, nextPid, sess, nextClient, post, lim,
               pureVars, sendCalls, mcpVars, validated, projected>>
vars == <<now, servers, child, nextPid, sess, nextClient, post, lim,
          sent, wire, buffer, received, feeds, written, requests,
          spawnedWith, handed,
          sendCalls, mcp, reply, validated, projected,
          downloadCache, validations, built, mcpProcesses, started,
          instances, answers>>

ServerIds == DOMAIN servers
Pids == DOMAIN child
ClientIds == DOMAIN sess
PostIds == DOMAIN post

\* ------------------------------------------------------------- the state
\* A process not spawned yet.
NoChild ==
  [st |-> "none", killed |-> FALSE, sid |-> 0,
   lastActivity |-> 0, clients |-> {}, listeners |-> {}, emitted |-> 0,
   stdin |-> 0]

\* server = { process, packageName, startTime, lastActivity, clients, events }
NewServer(sid) ==
  [st |-> "running", killed |-> FALSE, sid |-> sid,
   lastActivity |-> now, clients |-> {}, listeners |-> {}, emitted |-> 0,
   stdin |-> 0]

NoFx == [removeClient |-> 0, off |-> 0, clearInterval |-> 0, close |-> 0]

\* A handleSSE invocation that has not been requested yet.
NoSession ==
  [pc |-> "idle", sid |-> 0, pid |-> 0, conc |-> FALSE, closed |-> FALSE,
   ctrl |-> "none", stream |-> <<>>, pings |-> 0,
   keepAlive |-> FALSE, timer |-> FALSE, openedAt |-> 0,
   aborted |-> FALSE, fx |-> NoFx, status |-> 0]

NoPost == [pc |-> "idle", sid |-> 0, status |-> 0]

\* A child that was spawned, has not exited and has not been sent a signal.
\* The packageName of the requests for serverId sid (their params are
\* empty), and what the registries answer.
PackageName(sid) == lim.pkgs[sid]

World == lim.world

Live(p) == child[p].st = "running" /\ ~child[p].killed

\* A continuation is queued as a microtask: no timer, process event or new
\* request is served before it has run.
MicrotaskPending ==
  \/ \E c \in ClientIds : sess[c].pc = "acquired"
  \/ \E q \in PostIds : post[q].pc = "acquired"

\* ------------------------------------------------------------- MCPProxy
\* getOrCreateServer without the lookup of lines 41-45: it spawns every time.
GetOrCreateServerNoReuse(sid) ==
  [server |-> nextPid,
   servers |-> [servers EXCEPT ![sid] = nextPid],
   child |-> [child EXCEPT ![nextPid] = NewServer(sid)],
   nextPid |-> nextPid + 1]

\* getOrCreateServer: the record it returns and the registry it leaves.
\* It is async but holds no await: it runs to its end in one go.
GetOrCreateServer(sid) ==
  IF servers[sid] # 0 /\ ~child[servers[sid]].killed
  THEN [server |-> servers[sid],
        servers |-> servers,
        child |-> [child EXCEPT ![servers[sid]].lastActivity = now],
        nextPid |-> nextPid]
  ELSE [server |-> nextPid,
        servers |-> [servers EXCEPT ![sid] = nextPid],
        child |-> [child EXCEPT ![nextPid] = NewServer(sid)],
        nextPid |-> nextPid + 1]

\* addClient(serverId, clientId) on a registry srv and records ch.
AddClient(srv, ch, sid, c) ==
  IF srv[sid] # 0
  THEN [ch EXCEPT ![srv[sid]].clients = @ \cup {c},
                  ![srv[sid]].lastActivity = now]
  ELSE ch

\* server.events.on('message', messageHandler)
AttachHandler(ch, p, c) == [ch EXCEPT ![p].listeners = @ \cup {c}]

\* mcpProcess.on('exit') and on('error'): this.servers.delete(serverId)
DeleteEntry(srv, sid) == [srv EXCEPT ![sid] = 0]

\* A reaper that looks at the idle time only.
InactiveIgnoringClients(p, t) == (t - child[p].lastActivity) > MaxInactivity

\* The condition under which cleanupInactiveServers kills a record at time t.
Inactive(p, t) ==
  child[p].clients = {} /\ (t - child[p].lastActivity) > MaxInactivity

\* cleanupInactiveServers at time t: process.kill() and servers.delete()
\* for every inactive record of the registry.
Reaped(t) == {s \in ServerIds : servers[s] # 0 /\ Inactive(servers[s], t)}

CleanupInactiveServers(t) ==
  [servers |-> [s \in ServerIds |-> IF s \in Reaped(t) THEN 0 ELSE servers[s]],
   child |-> [p \in Pids |->
                IF \E s \in Reaped(t) : servers[s] = p
                THEN [child[p] EXCEPT !.killed = TRUE]
                ELSE child[p]]]

\* send(serverId, message): TRUE when it throws "not found or dead".
SendThrows(sid) == servers[sid] = 0 \/ child[servers[sid]].killed

\* send without the activity stamp.
SendNoStamp(sid) == [child EXCEPT ![servers[sid]].stdin = @ + 1]

\* send(serverId, message) otherwise: one write to stdin, lastActivity.
Send(sid) ==
  [child EXCEPT ![servers[sid]].stdin = @ + 1,
                ![servers[sid]].lastActivity = now]

\* ----------------------------------------------------------- SSEHandler
\* What safeSend does with the session as it is: nothing once closed, an
\* enqueue while the controller accepts chunks, and cleanup() when enqueue
\* throws.
SendOutcome(s) ==
  IF s.closed THEN "skip" ELSE IF s.ctrl = "open" THEN "ok" ELSE "throw"

\* A cleanup() that removes the client and detaches the handler but leaves
\* the closed flag, the interval and the controller as they are.
CleanupSessLeavesStreamOpen(s) ==
  [s EXCEPT !.fx = [removeClient |-> @.removeClient + 1,
                    off |-> @.off + 1,
                    clearInterval |-> @.clearInterval,
                    close |-> @.close]]

\* cleanup() without its closed guard: every call performs the effects.
CleanupSessUnguarded(s) ==
  [s EXCEPT !.closed = TRUE,
            !.keepAlive = FALSE,
            !.ctrl = IF @ = "open" THEN "closed" ELSE @,
            !.fx = [removeClient |-> @.removeClient + 1,
                    off |-> @.off + 1,
                    clearInterval |-> @.clearInterval + 1,
                    close |-> @.close + 1]]

\* cleanup(): the session's own part. closed guards every effect.
CleanupSess(s) ==
  IF s.closed
  THEN s
  ELSE [s EXCEPT !.closed = TRUE,
                 !.keepAlive = FALSE,
                 !.ctrl = IF @ = "open" THEN "closed" ELSE @,
                 !.fx = [removeClient |-> @.removeClient + 1,
                         off |-> @.off + 1,
                         clearInterval |-> @.clearInterval + 1,
                         close |-> @.close + 1]]

\* A cleanup that empties the bus and the clients set of the records it
\* touches (removeAllListeners, clients.clear).
CleanupChildAll(ch, C) ==
  [p \in Pids |->
     IF \E c \in C : sess[c].pid = p
     THEN [ch[p] EXCEPT !.listeners = {}, !.clients = {}]
     ELSE ch[p]]

\* cleanup(): its part on the child records, for the sessions C that run it
\* with closed still false: events.off on the record each one holds, and
\* removeClient on whatever record the registry holds for its serverId.
CleanupChild(ch, C) ==
  [p \in Pids |->
     [ch[p] EXCEPT
        !.listeners = @ \ {c \in C : sess[c].pid = p},
        !.clients = @ \ {c \in C : servers[sess[c].sid] = p}]]

\* safeSend(payload), the session's part.
SafeSend(s, ev) ==
  CASE SendOutcome(s) = "skip" -> s
    [] SendOutcome(s) = "ok" -> [s EXCEPT !.stream = Append(@, ev)]
    [] OTHER -> CleanupSess(s)

\* The status event: { type: 'connected', server: packageName, clientId }.
StatusEvent(sid, c) == <<"status", "connected", PackageName(sid), c>>

\* A start() that sends no status event.
StreamStartNoStatus(s, sid, c) == [s EXCEPT !.ctrl = "open"]

\* start(controller), the session's part up to the status event: the
\* controller accepts chunks and safeSend writes the status event.
StreamStart(s, sid, c) ==
  SafeSend([s EXCEPT !.ctrl = "open"], StatusEvent(sid, c))

\* A messageHandler that is attached twice: it writes each message twice.
MessageHandlerTwice(s, m) ==
  SafeSend(SafeSend(s, <<"message", m[1], m[2]>>), <<"message", m[1], m[2]>>)

\* messageHandler(obj); m is <<pid, index>> of the message.
MessageHandler(s, m) == SafeSend(s, <<"message", m[1], m[2]>>)

\* One bus shared by all records: every listener of every child is called.
ListenersOfAll(p) == UNION {child[q].listeners : q \in Pids}

\* events.emit('message', obj): the listeners the bus of record p calls.
Listeners(p) == child[p].listeners

\* ------------------------------------------------------- text and bytes
\* Text is a sequence of code points, a Buffer a sequence of bytes.
Min(S) == CHOOSE x \in S : \A y \in S : x <= y

IsDigit(b) == b \in 48..57

\* `${n}`: the decimal digits of a length.
RECURSIVE Decimal(_)
Decimal(n) ==
  IF n < 10 THEN <<48 + n>>
  ELSE Append(Decimal(n \div 10), 48 + (n % 10))

\* parseInt(digits, 10) of a run of digits.
RECURSIVE ParseInt(_)
ParseInt(ds) ==
  IF ds = <<>> THEN 0
  ELSE 10 * ParseInt(SubSeq(ds, 1, Len(ds) - 1)) + (ds[Len(ds)] - 48)

\* Buffer.from(text, 'utf8'), for code points below U+0800.
Utf8Char(cp) ==
  IF cp < 128 THEN <<cp>> ELSE <<192 + (cp \div 64), 128 + (cp % 64)>>

RECURSIVE Utf8Encode(_)
Utf8Encode(s) ==
  IF s = <<>> THEN <<>> ELSE Utf8Char(Head(s)) \o Utf8Encode(Tail(s))

\* buf.toString('utf8'); a byte that starts no complete character becomes
\* U+FFFD.
RECURSIVE Utf8Decode(_)
Utf8Decode(b) ==
  IF b = <<>> THEN <<>>
  ELSE IF b[1] < 128 THEN <<b[1]>> \o Utf8Decode(Tail(b))
  ELSE IF b[1] \in 192..223 /\ Len(b) >= 2 /\ b[2] \in 128..191
       THEN <<(b[1] - 192) * 64 + (b[2] - 128)>>
            \o Utf8Decode(SubSeq(b, 3, Len(b)))
  ELSE <<65533>> \o Utf8Decode(Tail(b))

\* ----------------------------------------------------------------- JSON
\* A JSON value is <<tag, payload>>: <<"null", <<>>>>, <<"bool", <<0 or 1>>>>,
\* <<"num", <<n>>>>, <<"str", text>>, <<"arr", values>>, and
\* <<"obj", members>> with a member <<key text, value>>.
JNull == <<"null", <<>>>>
JBool(b) == <<"bool", <<b>>>>
JNum(n) == <<"num", <<n>>>>
JStr(s) == <<"str", s>>
JArr(vs) == <<"arr", vs>>
JObj(ms) == <<"obj", ms>>

Hex(d) == IF d < 10 THEN 48 + d ELSE 87 + d

\* JSON.stringify's escape of one character of a string.
EscapeChar(c) ==
  IF c = 34 THEN <<92, 34>>
  ELSE IF c = 92 THEN <<92, 92>>
  ELSE IF c = 8 THEN <<92, 98>>
  ELSE IF c = 9 THEN <<92, 116>>
  ELSE IF c = 10 THEN <<92, 110>>
  ELSE IF c = 12 THEN <<92, 102>>
  ELSE IF c = 13 THEN <<92, 114>>
  ELSE IF c < 32 THEN <<92, 117, 48, 48, Hex(c \div 16), Hex(c % 16)>>
  ELSE <<c>>

RECURSIVE EscapeAll(_)
EscapeAll(s) ==
  IF s = <<>> THEN <<>> ELSE EscapeChar(Head(s)) \o EscapeAll(Tail(s))

JsonQuote(s) == <<34>> \o EscapeAll(s) \o <<34>>

\* JSON.stringify(value): the text, without white space.
RECURSIVE JsonStringify(_)
RECURSIVE JoinValues(_)
RECURSIVE JoinMembers(_)
JsonStringify(v) ==
  IF v[1] = "null" THEN <<110, 117, 108, 108>>
  ELSE IF v[1] = "bool"
       THEN (IF v[2] = <<1>> THEN <<116, 114, 117, 101>>
             ELSE <<102, 97, 108, 115, 101>>)
  ELSE IF v[1] = "num" THEN Decimal(v[2][1])
  ELSE IF v[1] = "str" THEN JsonQuote(v[2])
  ELSE IF v[1] = "arr" THEN <<91>> \o JoinValues(v[2]) \o <<93>>
  ELSE <<123>> \o JoinMembers(v[2]) \o <<125>>

JoinValues(vs) ==
  IF vs = <<>> THEN <<>>
  ELSE IF Len(vs) = 1 THEN JsonStringify(vs[1])
  ELSE JsonStringify(vs[1]) \o <<44>> \o JoinValues(Tail(vs))

JoinMembers(ms) ==
  IF ms = <<>> THEN <<>>
  ELSE LET m == JsonQuote(ms[1][1]) \o <<58>> \o JsonStringify(ms[1][2]) IN
       IF Len(ms) = 1 THEN m ELSE m \o <<44>> \o JoinMembers(Tail(ms))

\* JSON.parse(text): a parser of the grammar for the values above (numbers
\* are the non-negative integers). A result is [ok, val, next]; ok is FALSE
\* where JSON.parse throws.
ParseFail == [ok |-> FALSE, val |-> JNull, next |-> 0]
Parsed(v, n) == [ok |-> TRUE, val |-> v, next |-> n]

RECURSIVE SkipWs(_, _)
SkipWs(s, i) ==
  IF i <= Len(s) /\ s[i] \in {9, 10, 13, 32} THEN SkipWs(s, i + 1) ELSE i

StartsAt(s, i, lit) ==
  i + Len(lit) - 1 <= Len(s) /\ SubSeq(s, i, i + Len(lit) - 1) = lit

\* The index after the run of digits that starts at i.
RECURSIVE DigitsEnd(_, _)
DigitsEnd(s, i) ==
  IF i <= Len(s) /\ IsDigit(s[i]) THEN DigitsEnd(s, i + 1) ELSE i

ParseNumber(s, i) ==
  LET j == DigitsEnd(s, i) IN
  IF s[i] = 48 /\ j > i + 1 THEN ParseFail
  ELSE IF j <= Len(s) /\ s[j] \in {46, 69, 101} THEN ParseFail
  ELSE Parsed(JNum(ParseInt(SubSeq(s, i, j - 1))), j)

IsHex(c) == c \in 48..57 \/ c \in 97..102 \/ c \in 65..70
HexVal(c) == IF c <= 57 THEN c - 48 ELSE IF c >= 97 THEN c - 87 ELSE c - 55

\* The characters of a string up to its closing quote; i is past the
\* opening quote.
RECURSIVE ParseChars(_, _, _)
ParseChars(s, i, acc) ==
  IF i > Len(s) THEN ParseFail
  ELSE IF s[i] = 34 THEN Parsed(JStr(acc), i + 1)
  ELSE IF s[i] < 32 THEN ParseFail
  ELSE IF s[i] # 92 THEN ParseChars(s, i + 1, Append(acc, s[i]))
  ELSE IF i + 1 > Len(s) THEN ParseFail
  ELSE IF s[i + 1] \in {34, 47, 92} THEN ParseChars(s, i + 2, Append(acc, s[i + 1]))
  ELSE IF s[i + 1] = 98 THEN ParseChars(s, i + 2, Append(acc, 8))
  ELSE IF s[i + 1] = 102 THEN ParseChars(s, i + 2, Append(acc, 12))
  ELSE IF s[i + 1] = 110 THEN ParseChars(s, i + 2, Append(acc, 10))
  ELSE IF s[i + 1] = 114 THEN ParseChars(s, i + 2, Append(acc, 13))
  ELSE IF s[i + 1] = 116 THEN ParseChars(s, i + 2, Append(acc, 9))
  ELSE IF /\ s[i + 1] = 117
          /\ i + 5 <= Len(s)
          /\ \A k \in 2..5 : IsHex(s[i + k])
       THEN ParseChars(s, i + 6,
              Append(acc, HexVal(s[i + 2]) * 4096 + HexVal(s[i + 3]) * 256
                          + HexVal(s[i + 4]) * 16 + HexVal(s[i + 5])))
  ELSE ParseFail

\* obj[key] = value: a key already there keeps its place.
PutMember(ms, k, v) ==
  IF \E i \in 1..Len(ms) : ms[i][1] = k
  THEN [i \in 1..Len(ms) |-> IF ms[i][1] = k THEN <<k, v>> ELSE ms[i]]
  ELSE Append(ms, <<k, v>>)

RECURSIVE ParseValue(_, _)
RECURSIVE ParseElements(_, _, _)
RECURSIVE ParseMembers(_, _, _)
ParseValue(s, i0) ==
  LET i == SkipWs(s, i0) IN
  IF i > Len(s) THEN ParseFail
  ELSE IF StartsAt(s, i, <<110, 117, 108, 108>>) THEN Parsed(JNull, i + 4)
  ELSE IF StartsAt(s, i, <<116, 114, 117, 101>>) THEN Parsed(JBool(1), i + 4)
  ELSE IF StartsAt(s, i, <<102, 97, 108, 115, 101>>) THEN Parsed(JBool(0), i + 5)
  ELSE IF IsDigit(s[i]) THEN ParseNumber(s, i)
  ELSE IF s[i] = 34 THEN ParseChars(s, i + 1, <<>>)
  ELSE IF s[i] = 91
       THEN LET j == SkipWs(s, i + 1) IN
            IF j <= Len(s) /\ s[j] = 93 THEN Parsed(JArr(<<>>), j + 1)
            ELSE ParseElements(s, j, <<>>)
  ELSE IF s[i] = 123
       THEN LET j == SkipWs(s, i + 1) IN
            IF j <= Len(s) /\ s[j] = 125 THEN Parsed(JObj(<<>>), j + 1)
            ELSE ParseMembers(s, j, <<>>)
  ELSE ParseFail

ParseElements(s, i, acc) ==
  LET r == ParseValue(s, i) IN
  IF ~r.ok THEN ParseFail
  ELSE LET j == SkipWs(s, r.next) IN
       IF j > Len(s) THEN ParseFail
       ELSE IF s[j] = 44 THEN ParseElements(s, j + 1, Append(acc, r.val))
       ELSE IF s[j] = 93 THEN Parsed(JArr(Append(acc, r.val)), j + 1)
       ELSE ParseFail

ParseMembers(s, i, acc) ==
  LET k0 == SkipWs(s, i) IN
  IF k0 > Len(s) \/ s[k0] # 34 THEN ParseFail
  ELSE LET k == ParseChars(s, k0 + 1, <<>>) IN
       IF ~k.ok THEN ParseFail
       ELSE LET c == SkipWs(s, k.next) IN
            IF c > Len(s) \/ s[c] # 58 THEN ParseFail
            ELSE LET r == ParseValue(s, c + 1) IN
                 IF ~r.ok THEN ParseFail
                 ELSE LET ms == PutMember(acc, k.val[2], r.val)
                          j == SkipWs(s, r.next)
                      IN IF j > Len(s) THEN ParseFail
                         ELSE IF s[j] = 44 THEN ParseMembers(s, j + 1, ms)
                         ELSE IF s[j] = 125 THEN Parsed(JObj(ms), j + 1)
                         ELSE ParseFail

JsonParse(s) ==
  LET r == ParseValue(s, 1) IN
  IF r.ok /\ SkipWs(s, r.next) > Len(s) THEN r ELSE ParseFail

\* ---------------------------------------------- JsonRpcFramer, JsonRpcParser
\* "Content-Length: " and "\r\n\r\n"
HeaderName == <<67, 111, 110, 116, 101, 110, 116, 45, 76, 101, 110, 103,
                116, 104, 58, 32>>
Separator == <<13, 10, 13, 10>>

\* A framer that counts the characters of the text, not the bytes of the
\* Buffer.
EncodeCountingChars(message) ==
  HeaderName \o Decimal(Len(JsonStringify(message))) \o Separator
    \o Utf8Encode(JsonStringify(message))

\* JsonRpcFramer.encode(message)
Encode(message) ==
  LET json == Utf8Encode(JsonStringify(message)) IN
  HeaderName \o Decimal(Len(json)) \o Separator \o json

\* buffer.indexOf('\r\n\r\n'): the offset of the first one, -1 without any.
IndexOfSeparator(buf) ==
  LET I == {i \in 1..(Len(buf) - 3) : SubSeq(buf, i, i + 3) = Separator} IN
  IF I = {} THEN -1 ELSE Min(I) - 1

\* /Content-Length:\s*(\d+)/i and parseInt on the header text: the length,
\* -1 for the NaN of a header that does not match.
Lower(c) == IF c \in 65..90 THEN c + 32 ELSE c

RECURSIVE SkipSpace(_, _)
SkipSpace(h, i) ==
  IF i <= Len(h) /\ h[i] \in {9, 10, 11, 12, 13, 32}
  THEN SkipSpace(h, i + 1) ELSE i

MatchesAt(h, i) ==
  /\ i + 14 <= Len(h)
  /\ \A k \in 1..15 : Lower(h[i + k - 1]) = Lower(HeaderName[k])
  /\ LET j == SkipSpace(h, i + 15) IN j <= Len(h) /\ IsDigit(h[j])

HeaderLength(h) ==
  LET M == {i \in 1..Len(h) : MatchesAt(h, i)} IN
  IF M = {} THEN -1
  ELSE LET j == SkipSpace(h, Min(M) + 15) IN
       ParseInt(SubSeq(h, j, DigitsEnd(h, j) - 1))

\* The while loop of feed on the buffer buf, out the messages emitted so
\* far: the buffer it leaves and the messages.
RECURSIVE Drain(_, _)
Drain(buf, out) ==
  LET headerEnd == IndexOfSeparator(buf) IN
  IF headerEnd = -1 THEN [buffer |-> buf, out |-> out]
  ELSE LET len == HeaderLength(Utf8Decode(SubSeq(buf, 1, headerEnd)))
           frameStart == headerEnd + 4
           frameEnd == frameStart + len
       IN IF len = -1
          THEN Drain(SubSeq(buf, headerEnd + 5, Len(buf)), out)
          ELSE IF Len(buf) < frameEnd THEN [buffer |-> buf, out |-> out]
          ELSE LET r == JsonParse(Utf8Decode(SubSeq(buf, frameStart + 1, frameEnd)))
               IN Drain(SubSeq(buf, frameEnd + 1, Len(buf)),
                        IF r.ok THEN Append(out, r.val) ELSE out)

\* A feed that forgets what the last call left in the buffer.
FeedNoCarry(buf, chunk) == Drain(chunk, <<>>)

\* feed(chunk) on the buffer buf.
Feed(buf, chunk) == Drain(buf \o chunk, <<>>)

\* ------------------------------------------------------------ hashParams
\* The base64 alphabet, by sextet.
B64(i) ==
  IF i < 26 THEN 65 + i
  ELSE IF i < 52 THEN 97 + (i - 26)
  ELSE IF i < 62 THEN 48 + (i - 52)
  ELSE IF i = 62 THEN 43 ELSE 47

\* buf.toString('base64')
RECURSIVE Base64(_)
Base64(b) ==
  IF Len(b) = 0 THEN <<>>
  ELSE IF Len(b) = 1
       THEN <<B64(b[1] \div 4), B64((b[1] % 4) * 16), 61, 61>>
  ELSE IF Len(b) = 2
       THEN <<B64(b[1] \div 4), B64((b[1] % 4) * 16 + (b[2] \div 16)),
              B64((b[2] % 16) * 4), 61>>
  ELSE <<B64(b[1] \div 4), B64((b[1] % 4) * 16 + (b[2] \div 16)),
         B64((b[2] % 16) * 4 + (b[3] \div 64)), B64(b[3] % 64)>>
       \o Base64(SubSeq(b, 4, Len(b)))

\* a < b as Array.prototype.sort compares strings: by code unit, a prefix
\* first.
RECURSIVE StrLess(_, _)
StrLess(a, b) ==
  IF b = <<>> THEN FALSE
  ELSE IF a = <<>> THEN TRUE
  ELSE IF a[1] # b[1] THEN a[1] < b[1]
  ELSE StrLess(Tail(a), Tail(b))

\* Object.keys(params).sort(); params is the sequence of <<key, value>> in
\* insertion order, its keys distinct.
RECURSIVE SortedKeys(_)
SortedKeys(params) ==
  IF params = <<>> THEN <<>>
  ELSE LET i == CHOOSE i \in 1..Len(params) :
                  \A j \in 1..Len(params) :
                    j = i \/ StrLess(params[i][1], params[j][1])
           rest == [j \in 1..(Len(params) - 1) |->
                      IF j < i THEN params[j] ELSE params[j + 1]]
       IN <<params[i][1]>> \o SortedKeys(rest)

\* params[key]
ValueOf(params, k) ==
  params[CHOOSE i \in 1..Len(params) : params[i][1] = k][2]

\* JSON.stringify(params, keys): the members named by keys, in that order.
StringifyWithKeys(params, keys) ==
  JsonStringify(JObj([i \in 1..Len(keys) |->
                        <<keys[i], JStr(ValueOf(params, keys[i]))>>]))

\* str.slice(0, n)
Slice(s, n) == SubSeq(s, 1, IF Len(s) < n THEN Len(s) ELSE n)

\* hashParams(params)
HashParams(params) ==
  LET str == StringifyWithKeys(params, SortedKeys(params)) IN
  Slice(Base64(Utf8Encode(str)), 8)

\* computeServerId(packageName, params): `${packageName}_${hash}`
ComputeServerId(packageName, params) ==
  packageName \o <<95>> \o HashParams(params)

\* ----------------------------------------------- validation, packages
\* Strings are sequences of character codes.
Includes(s, lit) == \E i \in 1..Len(s) : StartsAt(s, i, lit)

StartsWith(s, lit) == StartsAt(s, 1, lit)

EndsWith(s, lit) ==
  Len(lit) <= Len(s) /\ StartsAt(s, Len(s) - Len(lit) + 1, lit)

\* The first index from i on where s holds c, Len(s) + 1 if there is none.
IndexFrom(s, c, i) ==
  IF \E k \in i..Len(s) : s[k] = c
  THEN CHOOSE k \in i..Len(s) : s[k] = c /\ \A j \in i..(k - 1) : s[j] # c
  ELSE IF i > Len(s) THEN i ELSE Len(s) + 1

\* packageName.split('@').slice(0, startsWith('@') ? 2 : 1).join('@')
BasePackageName(name) ==
  IF name[1] = 64
  THEN SubSeq(name, 1, IndexFrom(name, 64, 2) - 1)
  ELSE SubSeq(name, 1, IndexFrom(name, 64, 1) - 1)

\* [a-z0-9-~]
NameStart == (97..122) \cup (48..57) \cup {45, 126}

\* [a-z0-9-._~]
NameRest == NameStart \cup {46, 95}

\* [a-z0-9-~][a-z0-9-._~]*
IsNamePart(s) ==
  /\ s # <<>>
  /\ s[1] \in NameStart
  /\ \A i \in 2..Len(s) : s[i] \in NameRest

\* /^(@[a-z0-9-~][a-z0-9-._~]*\/)?[a-z0-9-~][a-z0-9-._~]*$/
ValidPattern(b) ==
  \/ IsNamePart(b)
  \/ /\ b # <<>>
     /\ b[1] = 64
     /\ \E k \in 2..Len(b) :
          /\ b[k] = 47
          /\ IsNamePart(SubSeq(b, 2, k - 1))
          /\ IsNamePart(SubSeq(b, k + 1, Len(b)))

\* ; & | ` $ ( ) { } [ ] < > ' " \
ShellChars == {59, 38, 124, 96, 36, 40, 41, 123, 125, 91, 93, 60, 62, 39, 34, 92}

\* A validatePackageName that tests the length after the format.
ValidatePackageNameLengthLate(name) ==
  IF name = <<>> THEN "empty_or_invalid_type"
  ELSE IF ~ValidPattern(BasePackageName(name)) THEN "invalid_format"
  ELSE IF Len(name) > MaxPackageNameLength THEN "too_long"
  ELSE "ok"

\* validatePackageName(packageName): "ok" when it returns the name, the
\* reason of the INVALID_PACKAGE_NAME error when it throws.
ValidatePackageName(name) ==
  IF name = <<>> THEN "empty_or_invalid_type"
  ELSE IF Len(name) > MaxPackageNameLength THEN "too_long"
  ELSE IF ~ValidPattern(BasePackageName(name)) THEN "invalid_format"
  ELSE IF \/ Includes(name, <<46, 46>>)
          \/ Includes(name, <<47, 46, 47>>)
          \/ Includes(name, <<92>>) THEN "path_traversal"
  ELSE IF \E i \in 1..Len(name) : name[i] \in ShellChars
       THEN "shell_metacharacters"
  ELSE "ok"

\* What validatePackageName(packageName) returns: packageName itself.
ReturnedName(name) == name

\* sanitizeEnvValue(value) of a string: at most maxParamValueLength
\* characters of it, then the shell metacharacters removed.
NotShellChar(c) == c \notin ShellChars

SanitizeEnvValue(value) ==
  LET cut == IF Len(value) > MaxParamValueLength
             THEN SubSeq(value, 1, MaxParamValueLength)
             ELSE value
  IN SelectSeq(cut, NotShellChar)

\* validateInputLimits(params), params the sequence of <<key, value>> in
\* Object.entries order: "ok" when it returns, the reason of the
\* INVALID_INPUT error when it throws.
RECURSIVE ValidateInputLimits(_)
ValidateInputLimits(params) ==
  IF params = <<>> THEN "ok"
  ELSE IF Len(params[1][1]) > MaxParamKeyLength THEN "param_key_too_long"
  ELSE IF Len(params[1][2]) > MaxParamValueLength
       THEN "param_value_too_long"
  ELSE ValidateInputLimits(Tail(params))

\* isRemoteServer(packageName)
IsRemoteServer(name) ==
  \/ StartsWith(name, <<104, 116, 116, 112, 58, 47, 47>>) \/ StartsWith(name, <<104, 116, 116, 112, 115, 58, 47, 47>>)
  \/ StartsWith(name, <<119, 115, 58, 47, 47>>) \/ StartsWith(name, <<119, 115, 115, 58, 47, 47>>)
  \/ Includes(name, <<46, 99, 111, 109>>) \/ Includes(name, <<46, 111, 114, 103>>)
  \/ Includes(name, <<46, 110, 101, 116>>) \/ Includes(name, <<46, 105, 111>>)
  \/ EndsWith(name, <<47, 115, 115, 101>>) \/ EndsWith(name, <<47, 115, 116, 100, 105, 111>>)
  \/ Includes(name, <<109, 99, 112, 45, 114, 101, 109, 111, 116, 101>>)

\* packageName.split('@')[0], the name both registries are asked for.
RegistryName(name) == SubSeq(name, 1, IndexFrom(name, 64, 1) - 1)

\* detectPackageType(packageName) against the registries w: the type it
\* returns, or the message of the error it throws.
DetectPackageType(name, w) ==
  IF IsRemoteServer(name) THEN "REMOTE_SERVER_NOT_SUPPORTED"
  ELSE IF RegistryName(name) \in w.npm THEN "npm"
  ELSE IF RegistryName(name) \in w.pypi THEN "python"
  ELSE "PACKAGE_NOT_FOUND"

\* A handler that goes on whatever detectPackageType did.
DetectedAlways(name, w) == TRUE

Detected(name, w) == DetectPackageType(name, w) \in {"npm", "python"}

\* validatePackage(packageName, cache).valid against the registries w, with
\* an empty cache.
ValidatePackage(name, w) ==
  CASE DetectPackageType(name, w) = "npm" ->
         w.downloads[RegistryName(name)] >= MinDownloads
    [] DetectPackageType(name, w) = "python" ->
         w.description[RegistryName(name)] > MinDescription
    [] OTHER -> FALSE

\* 'latest'
Latest == <<108, 97, 116, 101, 115, 116>>

\* The places of '@' in a name.
Ats(name) == {i \in 1..Len(name) : name[i] = 64}

\* parsePackageName(packageName): fullName and version.
ParsePackageName(name) ==
  LET last == IF Ats(name) = {} THEN 0
              ELSE CHOOSE i \in Ats(name) : \A j \in Ats(name) : j <= i
  IN
  IF StartsWith(name, <<64>>) /\ Cardinality(Ats(name)) = 2
  THEN [fullName |-> SubSeq(name, 1, last - 1),
        version |-> SubSeq(name, last + 1, Len(name))]
  ELSE IF StartsWith(name, <<64>>) /\ Cardinality(Ats(name)) = 1
  THEN [fullName |-> name, version |-> Latest]
  ELSE IF last > 1
  THEN [fullName |-> SubSeq(name, 1, last - 1),
        version |-> SubSeq(name, last + 1, Len(name))]
  ELSE [fullName |-> name, version |-> Latest]

\* s.split(' ')
SplitOnSpace(s) ==
  LET cuts == {0, Len(s) + 1} \cup {i \in 1..Len(s) : s[i] = 32}
      nth(k) == CHOOSE c \in cuts : Cardinality({d \in cuts : d < c}) = k - 1
  IN [k \in 1..(Cardinality(cuts) - 1) |->
        SubSeq(s, nth(k) + 1, nth(k + 1) - 1)]

\* arg.trim() is not empty: arg holds a character that is not white space.
TrimsToSomething(arg) ==
  \E i \in 1..Len(arg) : arg[i] \notin {9, 10, 11, 12, 13, 32}

FirstOf(q, n) == SubSeq(q, 1, IF Len(q) < n THEN Len(q) ELSE n)

\* validateArgs(argsString): the tokens, or the error thrown.
ValidateArgs(s) ==
  IF \E i \in 1..Len(s) : s[i] \in ShellChars
  THEN [error |-> "INVALID_ARGS", tokens |-> <<>>]
  ELSE LET kept == SelectSeq(SplitOnSpace(s), TrimsToSomething)
           cut == [k \in 1..Len(kept) |-> FirstOf(kept[k], MaxArgLength)]
       IN [error |-> "", tokens |-> FirstOf(cut, MaxArgs)]

\* decodeURIComponent(s) for escapes of ASCII characters: the string, or
\* URIError when a '%' is not followed by two hex digits.
DecodeURIComponent(s) ==
  LET esc == {i \in 1..Len(s) : s[i] = 37}
      bad == \E i \in esc :
               ~ (i + 2 <= Len(s) /\ IsHex(s[i + 1]) /\ IsHex(s[i + 2]))
      keep == {i \in 1..Len(s) : (i - 1) \notin esc /\ (i - 2) \notin esc}
      nth(k) == CHOOSE i \in keep : Cardinality({j \in keep : j < i}) = k - 1
  IN IF bad THEN [error |-> "URIError", text |-> <<>>]
     ELSE [error |-> "",
           text |-> [k \in 1..Cardinality(keep) |->
                       IF nth(k) \in esc
                       THEN 16 * HexVal(s[nth(k) + 1]) + HexVal(s[nth(k) + 2])
                       ELSE s[nth(k)]]]

\* 'npx', 'uvx'
Npx == <<110, 112, 120>>
Uvx == <<117, 118, 120>>

\* The package token of the command: fullName, or fullName joined to the
\* version by sep when a version other than 'latest' is given.
PackageToken(name, sep) ==
  LET parsed == ParsePackageName(name) IN
  IF parsed.version # <<>> /\ parsed.version # Latest
  THEN parsed.fullName \o sep \o parsed.version
  ELSE parsed.fullName

\* ProcessManager.buildMCPCommand(packageName, packageType, params), where
\* args is params.args ('' when absent): the command and its arguments, or
\* the error thrown.
BuildMCPCommand(name, type, args) ==
  LET head == IF type = "python"
              THEN <<Uvx, PackageToken(name, <<61, 61>>)>>
              ELSE <<Npx, <<45, 121>>, PackageToken(name, <<64>>)>>
      decoded == DecodeURIComponent(args)
      custom == ValidateArgs(decoded.text)
  IN IF type \notin {"npm", "python"}
     THEN [error |-> "Unsupported package type", argv |-> <<>>]
     ELSE IF args = <<>> THEN [error |-> "", argv |-> head]
     ELSE IF decoded.error # "" THEN [error |-> decoded.error, argv |-> <<>>]
     ELSE IF custom.error # "" THEN [error |-> custom.error, argv |-> <<>>]
     ELSE [error |-> "", argv |-> head \o custom.tokens]

\* MCPProxy.buildCommand(packageName, packageType)
BuildCommand(name, type) ==
  IF type = "npm" THEN <<Npx, <<45, 121>>, name>> ELSE <<Uvx, name>>

\* ----------------------------------------------------------- MCPHandler
\* A JSON-RPC id as JavaScript sees it: undefined (no id member), null, a
\* number or a string.
NoId == <<"undefined">>
NullId == <<"null">>

\* request.id ?? null
IdOrNullish(id) == IF id \in {NoId, NullId} THEN NullId ELSE id

\* request.id || null: every falsy id becomes null.
IdOrFalsy(id) ==
  IF id \in {NoId, NullId, <<"num", 0>>, <<"str", "">>} THEN NullId ELSE id

NoData == [kind |-> "none", supported |-> <<>>, requested |-> "undefined"]

\* createMCPErrorResponse(id, error) sent with an HTTP status
ErrorResponse(status, id, code, data) ==
  [status |-> status, id |-> id, code |-> code, result |-> "none",
   data |-> data]

\* createMCPSuccessResponse(id, result), sent with status 200
SuccessResponse(id, result) ==
  [status |-> 200, id |-> id, code |-> 0, result |-> result, data |-> NoData]

\* new Response(null, { status: 204 })
EmptyResponse ==
  [status |-> 204, id |-> <<"none">>, code |-> 0, result |-> "none",
   data |-> NoData]

\* A member of the parsed body; undefined when the body is no object.
Member(r, f) == IF r.parse = "object" THEN r[f] ELSE "undefined"

RequestId(r) == IF r.parse = "object" THEN r.id ELSE NoId

\* handleInitialize(c, request): the handler's state and the response.
HandleInitialize(m, r) ==
  IF ~r.params.present
  THEN [mcp |-> m,
        res |-> ErrorResponse(500, IdOrNullish(r.id), INTERNAL_ERROR,
                              [NoData EXCEPT !.kind = "text"])]
  ELSE IF r.params.protocolVersion # MCP_PROTOCOL_VERSION
  THEN [mcp |-> m,
        res |-> ErrorResponse(400, IdOrNullish(r.id),
                              UNSUPPORTED_PROTOCOL_VERSION,
                              [kind |-> "versions",
                               supported |-> <<MCP_PROTOCOL_VERSION>>,
                               requested |-> r.params.protocolVersion])]
  ELSE LET stored == [m EXCEPT
                        !.protocolVersion = r.params.protocolVersion,
                        !.clientCapabilities = r.params.capabilities] IN
       IF r.params.clientInfo = "undefined"
       THEN [mcp |-> stored,
             res |-> ErrorResponse(500, IdOrNullish(r.id), INTERNAL_ERROR,
                                   [NoData EXCEPT !.kind = "text"])]
       ELSE [mcp |-> stored,
             res |-> SuccessResponse(IdOrNullish(r.id), "initialize")]

\* A notification handler that forgets the flag.
HandleInitializedNoFlag(m) == m

\* handleInitialized(c)
HandleInitialized(m) == [m EXCEPT !.isInitialized = TRUE]

\* handleListCapabilities, handleListTools, handleListResources,
\* handleListPrompts: the same guard, each with its own list.
HandleList(m, r) ==
  IF ~m.isInitialized
  THEN ErrorResponse(400, IdOrFalsy(r.id), SERVER_NOT_READY, NoData)
  ELSE SuccessResponse(IdOrFalsy(r.id), r.method)

ListMethods ==
  {"capabilities/list", "tools/list", "resources/list", "prompts/list"}

\* switch (request.method)
Dispatch(m, r) ==
  CASE r.method = "initialize" -> HandleInitialize(m, r)
    [] r.method = "notifications/initialized" ->
         [mcp |-> HandleInitialized(m), res |-> EmptyResponse]
    [] r.method \in ListMethods ->
         [mcp |-> m, res |-> HandleList(m, r)]
    [] OTHER ->
         [mcp |-> m,
          res |-> ErrorResponse(404, IdOrFalsy(r.id), METHOD_NOT_FOUND,
                                NoData)]

\* The catch of handleMCPRequest: c.req.json() threw, or reading a member
\* of a null body did.
InvalidJson(m) ==
  [mcp |-> m, res |-> ErrorResponse(400, NullId, INVALID_PARAMS, NoData)]

\* A handler without the test of the jsonrpc member.
HandleMCPRequestUnchecked(m, r) ==
  IF r.parse = "object" THEN Dispatch(m, r) ELSE InvalidJson(m)

\* handleMCPRequest(c) for the body r: the handler's state and the response.
HandleMCPRequest(m, r) ==
  IF r.parse \in {"unparseable", "null"}
  THEN InvalidJson(m)
  ELSE IF Member(r, "jsonrpc") # "2.0"
  THEN [mcp |-> m,
        res |-> ErrorResponse(400, IdOrNullish(RequestId(r)), INVALID_PARAMS,
                              NoData)]
  ELSE Dispatch(m, r)

\* ---------------------------------------------------------------- Init
\* n packages named "a", "b", ..., all of them npm packages with enough
\* downloads: the requests of a specification that is not about names.
PlainPackages(n) ==
  LET names == {<<96 + s>> : s \in 1..n} IN
  [pkgs |-> [s \in 1..n |-> <<96 + s>>],
   world |-> [npm |-> names, pypi |-> {},
              downloads |-> [x \in names |-> MinDownloads],
              description |-> [x \in {} |-> 0]]]

\* new MCPProxy(), new SSEHandler(proxy): an empty registry.
InitWith(L) ==
  /\ lim = IF "pkgs" \in DOMAIN L THEN L ELSE L @@ PlainPackages(L.sids)
  /\ now = 0
  /\ servers = [s \in 1..L.sids |-> 0]
  /\ child = [p \in 1..(L.clients + L.posts) |-> NoChild]
  /\ nextPid = 1
  /\ sess = [c \in 1..L.clients |-> NoSession]
  /\ nextClient = 1
  /\ post = [q \in 1..L.posts |-> NoPost]
  /\ sendCalls = <<>>

\* An empty download cache, new ProcessManager(), new InstanceManager(): no
\* verdict cached, no process registered, no instance stored, nothing called.
InitLibraryIdle ==
  /\ downloadCache = <<>>
  /\ validations = <<>>
  /\ built = <<>>
  /\ mcpProcesses = {}
  /\ started = <<>>
  /\ instances = <<>>
  /\ answers = <<>>

\* No validation function has been called.
InitValidationIdle ==
  /\ validated = <<>>
  /\ projected = <<>>
  /\ InitLibraryIdle

\* new MCPHandler()
NoMcp ==
  [isInitialized |-> FALSE, clientCapabilities |-> "null",
   protocolVersion |-> "null"]

InitMcpIdle ==
  /\ mcp = NoMcp
  /\ reply = <<>>
  /\ InitValidationIdle

\* No frame on the wire and an empty parser buffer.
InitParserIdle ==
  /\ sent = <<>>
  /\ wire = <<>>
  /\ buffer = <<>>
  /\ received = <<>>
  /\ feeds = 0
  /\ written = <<>>

\* No request whose serverId is computed.
InitHashIdle ==
  /\ requests = <<>>
  /\ spawnedWith = {}
  /\ handed = <<>>

\* ------------------------------------------------------- handleSSE steps
\* GET /package/:packageName/sse arrives: clientId = uuidv4(), then the
\* handler waits for detectPackageType.
SSERequest(sid) ==
  /\ ~MicrotaskPending
  /\ nextClient \in ClientIds
  /\ sess' = [sess EXCEPT ![nextClient] =
                IF PackageName(sid) = <<>>
                THEN [NoSession EXCEPT !.pc = "failed", !.sid = sid,
                                       !.status = 400]
                ELSE [NoSession EXCEPT !.pc = "detect", !.sid = sid]]
  /\ nextClient' = nextClient + 1
  /\ UNCHANGED <<now, servers, child, nextPid, post, lim, pureVars, sendCalls, mcpVars, edgeVars>>

\* detectPackageType throws (a remote name, or neither registry answered
\* 200, which includes a fetch that failed): the catch answers 500.
SSEDetectFail(c) ==
  /\ sess[c].pc = "detect"
  /\ sess' = [sess EXCEPT ![c].pc = "failed", ![c].status = 500]
  /\ UNCHANGED <<now, servers, child, nextPid, nextClient, post, lim, pureVars, sendCalls, mcpVars, edgeVars>>

\* detectPackageType returned; getOrCreateServer runs to its end and the
\* handler awaits its promise. conc records that another request for the
\* same serverId was being handled at that moment.
SSEAcquire(c) ==
  /\ sess[c].pc = "detect"
  /\ Detected(PackageName(sess[c].sid), World)
  /\ LET r == GetOrCreateServer(sess[c].sid) IN
       /\ servers' = r.servers
       /\ child' = r.child
       /\ nextPid' = r.nextPid
       /\ sess' = [sess EXCEPT
            ![c].pc = "acquired",
            ![c].pid = r.server,
            ![c].conc = \E d \in ClientIds \ {c} :
                           /\ sess[d].sid = sess[c].sid
                           /\ sess[d].pc \in {"detect", "acquired"}]
  /\ UNCHANGED <<now, nextClient, post, lim, pureVars, sendCalls, mcpVars, edgeVars>>

\* The continuation: addClient, then the stream's start(): events.on, the
\* status event, the keepalive interval, the 30 minute timer, the abort
\* listener.
SSEOpen(c) ==
  /\ sess[c].pc = "acquired"
  /\ child' = AttachHandler(AddClient(servers, child, sess[c].sid, c),
                            sess[c].pid, c)
  /\ LET s == StreamStart(sess[c], sess[c].sid, c) IN
       sess' = [sess EXCEPT ![c] =
                  [s EXCEPT !.pc = "open", !.keepAlive = TRUE,
                            !.timer = TRUE, !.openedAt = now,
                            !.status = 200]]
  /\ UNCHANGED <<now, servers, nextPid, nextClient, post, lim, pureVars, sendCalls, mcpVars, edgeVars>>

\* One run of cleanup() for session c, whatever called it; s is the session
\* as the caller leaves it.
RunCleanup(c, s) ==
  /\ sess' = [sess EXCEPT ![c] = CleanupSess(s)]
  /\ child' = IF s.closed THEN child ELSE CleanupChild(child, {c})

\* The keepalive interval fires: safeSend of a ping event.
KeepAlive(c) ==
  /\ ~MicrotaskPending
  /\ sess[c].keepAlive
  /\ sess[c].pings < lim.pings
  /\ LET s == [sess[c] EXCEPT !.pings = @ + 1] IN
       /\ sess' = [sess EXCEPT ![c] = SafeSend(s, <<"ping">>)]
       /\ child' = IF SendOutcome(s) = "throw"
                   THEN CleanupChild(child, {c}) ELSE child
  /\ UNCHANGED <<now, servers, nextPid, nextClient, post, lim, pureVars, sendCalls, mcpVars, edgeVars>>

\* setTimeout(cleanup, 30 min) fires; it is never cleared.
Timeout(c) ==
  /\ ~MicrotaskPending
  /\ sess[c].timer
  /\ now - sess[c].openedAt >= SessionTimeout
  /\ RunCleanup(c, [sess[c] EXCEPT !.timer = FALSE])
  /\ UNCHANGED <<now, servers, nextPid, nextClient, post, lim, pureVars, sendCalls, mcpVars, edgeVars>>

\* The request's abort signal fires its listener (once).
Abort(c) ==
  /\ ~MicrotaskPending
  /\ sess[c].pc = "open"
  /\ ~sess[c].aborted
  /\ RunCleanup(c, [sess[c] EXCEPT !.aborted = TRUE])
  /\ UNCHANGED <<now, servers, nextPid, nextClient, post, lim, pureVars, sendCalls, mcpVars, edgeVars>>

\* The stream's consumer cancels it: cancel() calls this.cleanup(), whose
\* controller.close() throws on the cancelled stream and is swallowed.
Cancel(c) ==
  /\ ~MicrotaskPending
  /\ sess[c].pc = "open"
  /\ sess[c].ctrl = "open"
  /\ RunCleanup(c, [sess[c] EXCEPT !.ctrl = "cancelled"])
  /\ UNCHANGED <<now, servers, nextPid, nextClient, post, lim, pureVars, sendCalls, mcpVars, edgeVars>>

\* The response stream stops accepting chunks with no callback run: the
\* next enqueue throws.
StreamBreaks(c) ==
  /\ ~MicrotaskPending
  /\ sess[c].pc = "open"
  /\ sess[c].ctrl = "open"
  /\ sess' = [sess EXCEPT ![c].ctrl = "errored"]
  /\ UNCHANGED <<now, servers, child, nextPid, nextClient, post, lim, pureVars, sendCalls, mcpVars, edgeVars>>

\* --------------------------------------------------- the child's output
RECURSIVE SumEmitted(_)
SumEmitted(P) ==
  IF P = {} THEN 0
  ELSE LET p == CHOOSE x \in P : TRUE IN child[p].emitted + SumEmitted(P \ {p})

\* The number of messages the parsers have emitted, all children together.
Emitted == SumEmitted(Pids)

\* The child writes a frame, the parser emits it and the record's bus calls
\* every listener (emit works on a copy of the listener list, so a handler
\* that detaches itself does not disturb the others). A child's stdout may
\* still deliver after its 'exit' event.
ParserEmit(p) ==
  /\ ~MicrotaskPending
  /\ child[p].st \in {"running", "exited"}
  /\ Emitted < lim.msgs
  /\ LET m == <<p, child[p].emitted + 1>>
         L == Listeners(p)
         T == {c \in L : SendOutcome(sess[c]) = "throw"}
     IN /\ sess' = [c \in ClientIds |->
                      IF c \in L THEN MessageHandler(sess[c], m) ELSE sess[c]]
        /\ child' = [CleanupChild(child, T) EXCEPT ![p].emitted = @ + 1]
  /\ UNCHANGED <<now, servers, nextPid, nextClient, post, lim, pureVars, sendCalls, mcpVars, edgeVars>>

\* ------------------------------------------------------- process events
\* mcpProcess.on('exit'): the handler deletes the key serverId.
Exit(p) ==
  /\ ~MicrotaskPending
  /\ child[p].st = "running"
  /\ child' = [child EXCEPT ![p].st = "exited"]
  /\ servers' = DeleteEntry(servers, child[p].sid)
  /\ UNCHANGED <<now, nextPid, sess, nextClient, post, lim, pureVars, sendCalls, mcpVars, edgeVars>>

\* mcpProcess.on('error'): spawn() could not start the process (the event
\* is emitted after getOrCreateServer has stored the record); the handler
\* deletes the key serverId. No 'exit' follows.
ChildError(p) ==
  /\ ~MicrotaskPending
  /\ child[p].st = "running"
  /\ child[p].emitted = 0
  /\ child' = [child EXCEPT ![p].st = "failed"]
  /\ servers' = DeleteEntry(servers, child[p].sid)
  /\ UNCHANGED <<now, nextPid, sess, nextClient, post, lim, pureVars, sendCalls, mcpVars, edgeVars>>

\* ------------------------------------------------------ reaper, shutdown
\* Five minutes pass and the interval runs cleanupInactiveServers.
Tick ==
  /\ ~MicrotaskPending
  /\ now < lim.ticks * ReapInterval
  /\ now' = now + ReapInterval
  /\ LET r == CleanupInactiveServers(now + ReapInterval) IN
       /\ servers' = r.servers
       /\ child' = r.child
  /\ UNCHANGED <<nextPid, sess, nextClient, post, lim, pureVars, sendCalls, mcpVars, edgeVars>>

\* shutdown(): kill and delete every record of the registry.
Shutdown ==
  /\ ~MicrotaskPending
  /\ \E s \in ServerIds : servers[s] # 0
  /\ child' = [p \in Pids |->
                 IF \E s \in ServerIds : servers[s] = p
                 THEN [child[p] EXCEPT !.killed = TRUE]
                 ELSE child[p]]
  /\ servers' = [s \in ServerIds |-> 0]
  /\ UNCHANGED <<now, nextPid, sess, nextClient, post, lim, pureVars, sendCalls, mcpVars, edgeVars>>

\* --------------------------------------------------- handleMessage steps
\* POST /package/:packageName/messages arrives; the handler waits for the
\* body and for detectPackageType.
PostRequest(q, sid) ==
  /\ ~MicrotaskPending
  /\ post[q].pc = "idle"
  /\ \A r \in PostIds : r < q => post[r].pc # "idle"
  /\ Cardinality({r \in PostIds : post[r].pc \in {"detect", "acquired"}})
       < lim.inflight
  /\ post' = [post EXCEPT ![q] =
                IF PackageName(sid) = <<>>
                THEN [pc |-> "done", sid |-> sid, status |-> 400]
                ELSE [pc |-> "detect", sid |-> sid, status |-> 0]]
  /\ UNCHANGED <<now, servers, child, nextPid, sess, nextClient, lim, pureVars, sendCalls, mcpVars, edgeVars>>

\* c.req.json() or detectPackageType throws: 500.
PostFail(q) ==
  /\ post[q].pc = "detect"
  /\ post' = [post EXCEPT ![q].pc = "done", ![q].status = 500]
  /\ UNCHANGED <<now, servers, child, nextPid, sess, nextClient, lim, pureVars, sendCalls, mcpVars, edgeVars>>

\* getOrCreateServer runs to its end and the handler awaits its promise.
PostAcquire(q) ==
  /\ post[q].pc = "detect"
  /\ Detected(PackageName(post[q].sid), World)
  /\ LET r == GetOrCreateServer(post[q].sid) IN
       /\ servers' = r.servers
       /\ child' = r.child
       /\ nextPid' = r.nextPid
  /\ post' = [post EXCEPT ![q].pc = "acquired"]
  /\ UNCHANGED <<now, sess, nextClient, lim, pureVars, sendCalls, mcpVars, edgeVars>>

\* this.mcpProxy.send(serverId, message), then 202, or 500 when it throws.
PostSend(q) ==
  /\ post[q].pc = "acquired"
  /\ IF SendThrows(post[q].sid)
     THEN /\ post' = [post EXCEPT ![q].pc = "done", ![q].status = 500]
          /\ child' = child
     ELSE /\ post' = [post EXCEPT ![q].pc = "done", ![q].status = 202]
          /\ child' = Send(post[q].sid)
  /\ UNCHANGED <<now, servers, nextPid, sess, nextClient, lim, pureVars, sendCalls, mcpVars, edgeVars>>

\* mcpProxy.send(serverId, message) called on its own, as the public method
\* it is: it throws, or writes one frame and stamps lastActivity.
SendCall(sid) ==
  /\ ~MicrotaskPending
  /\ Len(sendCalls) < lim.sends
  /\ IF SendThrows(sid)
     THEN /\ sendCalls' = Append(sendCalls, <<sid, "threw">>)
          /\ child' = child
     ELSE /\ sendCalls' = Append(sendCalls, <<sid, "sent">>)
          /\ child' = Send(sid)
  /\ UNCHANGED <<now, servers, nextPid, sess, nextClient, post, lim, pureVars,
                 mcpVars, edgeVars>>

\* ---------------------------------------------------------- next states
SessionSteps ==
  \/ \E s \in ServerIds : SSERequest(s)
  \/ \E c \in ClientIds : SSEDetectFail(c)
  \/ \E c \in ClientIds : SSEAcquire(c)
  \/ \E c \in ClientIds : SSEOpen(c)
  \/ \E c \in ClientIds : Abort(c)
  \/ \E c \in ClientIds : Cancel(c)
  \/ \E c \in ClientIds : StreamBreaks(c)

ChildSteps ==
  \/ \E p \in Pids : Exit(p)
  \/ Shutdown

FanoutSteps ==
  \/ \E p \in Pids : ParserEmit(p)
  \/ \E p \in Pids : ChildError(p)

PostSteps ==
  \/ \E q \in PostIds, s \in ServerIds : PostRequest(q, s)
  \/ \E q \in PostIds : PostFail(q)
  \/ \E q \in PostIds : PostAcquire(q)
  \/ \E q \in PostIds : PostSend(q)

TimerSteps ==
  \/ \E c \in ClientIds : Timeout(c)
  \/ \E c \in ClientIds : KeepAlive(c)

\* The SSE sessions, the children and the fanout, with the clock at rest.
CoreLimits ==
  [clients |-> CoreClients, posts |-> 0, sids |-> CoreServerIds,
   msgs |-> CoreMsgs, pings |-> 0, ticks |-> 0, sends |-> 0, inflight |-> 0]

Init == InitWith(CoreLimits) /\ InitParserIdle /\ InitHashIdle /\ InitMcpIdle

Next == SessionSteps \/ ChildSteps \/ FanoutSteps

Spec == Init /\ [][Next]_vars

\* One SSE session and one POST with the clock running: the reaper, the
\* 30 minute session timer and the keepalive interval.
TimedLimits ==
  [clients |-> TimedClients, posts |-> TimedPosts, sids |-> TimedServerIds,
   msgs |-> 0, pings |-> TimedPings, ticks |-> TimedTicks,
   sends |-> 0, inflight |-> TimedPosts]

InitTimed == InitWith(TimedLimits) /\ InitParserIdle /\ InitHashIdle /\ InitMcpIdle

NextTimed == SessionSteps \/ ChildSteps \/ PostSteps \/ TimerSteps \/ Tick

SpecTimed == InitTimed /\ [][NextTimed]_vars

\* The same with timers that fire on time: a session timer that is due runs
\* before the clock reaches the reaper's next tick.
TimerDue ==
  \E c \in ClientIds :
    sess[c].timer /\ now - sess[c].openedAt >= SessionTimeout

TickAfterTimers == ~TimerDue /\ Tick

NextDeadline ==
  SessionSteps \/ ChildSteps \/ PostSteps \/ TimerSteps \/ TickAfterTimers

SpecDeadline == InitTimed /\ [][NextDeadline]_vars

\* The registry under POST requests, process events, shutdown and the
\* reaper.
RegLimits ==
  [clients |-> 0, posts |-> RegPosts, sids |-> RegServerIds,
   msgs |-> 0, pings |-> 0, ticks |-> RegTicks, sends |-> 0, inflight |-> RegPosts]

InitRegistry == InitWith(RegLimits) /\ InitParserIdle /\ InitHashIdle /\ InitMcpIdle

NextRegistry == PostSteps \/ ChildSteps \/ Tick

SpecRegistry == InitRegistry /\ [][NextRegistry]_vars

\* The frames of the SSE streams of one serverId: messages of the children
\* and keepalive pings, with the clock at rest.
FrameLimits ==
  [clients |-> FrameClients, posts |-> 0, sids |-> 1,
   msgs |-> FrameMsgs, pings |-> FramePings, ticks |-> 0, sends |-> 0,
   inflight |-> 0]

InitFrames ==
  InitWith(FrameLimits) /\ InitParserIdle /\ InitHashIdle /\ InitMcpIdle

NextFrames ==
  \/ SessionSteps
  \/ ChildSteps
  \/ FanoutSteps
  \/ \E c \in ClientIds : KeepAlive(c)

SpecFrames == InitFrames /\ [][NextFrames]_vars

\* send called directly, between requests, exits, shutdowns and clock ticks.
SendLimits ==
  [clients |-> 0, posts |-> SendPosts, sids |-> SendServerIds,
   msgs |-> 0, pings |-> 0, ticks |-> SendTicks, sends |-> SendCalls,
   inflight |-> SendPosts]

InitSend == InitWith(SendLimits) /\ InitParserIdle /\ InitHashIdle /\ InitMcpIdle

NextSend ==
  \/ PostSteps
  \/ ChildSteps
  \/ Tick
  \/ \E s \in ServerIds : SendCall(s)

SpecSend == InitSend /\ [][NextSend]_vars

\* "ab": an npm package with 500 downloads last month
GoodPackage == <<97, 98>>

\* "JSONStream": an npm package; validatePackageName rejects the capitals
UppercasePackage == <<74, 83, 79, 78, 83, 116, 114, 101, 97, 109>>

\* "pkg;rm -rf /": known to neither registry
ShellPackage == <<112, 107, 103, 59, 114, 109, 32, 45, 114, 102, 32, 47>>

\* "https://example.com/sse": a remote server
RemotePackage ==
  <<104, 116, 116, 112, 115, 58, 47, 47, 101, 120, 97, 109, 112, 108, 101,
    46, 99, 111, 109, 47, 115, 115, 101>>

\* "lo": an npm package with 5 downloads last month
UnpopularPackage == <<108, 111>>

\* "py": a PyPI package with a description of 3 characters
PythonPackage == <<112, 121>>

\* "zz": known to neither registry
UnknownPackage == <<122, 122>>

\* Requests by package name, against registries that know some of the names.
EdgePackages ==
  <<GoodPackage, UppercasePackage, ShellPackage, RemotePackage,
    UnpopularPackage, PythonPackage, UnknownPackage, <<>> >>

\* What the registries answer: 200 for the names in npm and pypi, the
\* downloads of last month, the length of the description.
EdgeWorld ==
  [npm |-> {GoodPackage, UppercasePackage, UnpopularPackage},
   pypi |-> {PythonPackage},
   downloads |-> (GoodPackage :> 500) @@ (UppercasePackage :> 500)
                   @@ (UnpopularPackage :> 5),
   description |-> (PythonPackage :> 3)]

EdgeLimits ==
  [clients |-> EdgeClients, posts |-> EdgePosts, sids |-> Len(EdgePackages),
   msgs |-> 0, pings |-> 0, ticks |-> 0, sends |-> 0, inflight |-> EdgePosts,
   pkgs |-> EdgePackages, world |-> EdgeWorld]

InitEdge == InitWith(EdgeLimits) /\ InitParserIdle /\ InitHashIdle /\ InitMcpIdle

NextEdge == SessionSteps \/ PostSteps

SpecEdge == InitEdge /\ [][NextEdge]_vars

\* The registry filling up: one POST request more than the configured cap,
\* each for a serverId of its own.
CapRequests == MaxConcurrentProcesses + 1

CapLimits ==
  [clients |-> 0, posts |-> CapRequests, sids |-> CapRequests,
   msgs |-> 0, pings |-> 0, ticks |-> 0, sends |-> 0, inflight |-> CapInflight]

InitCap == InitWith(CapLimits) /\ InitParserIdle /\ InitHashIdle /\ InitMcpIdle

NextCap ==
  \/ \E q \in PostIds : PostRequest(q, q)
  \/ \E q \in PostIds : PostFail(q)
  \/ \E q \in PostIds : PostAcquire(q)
  \/ \E q \in PostIds : PostSend(q)

SpecCap == InitCap /\ [][NextCap]_vars

\* ------------------------------------------------------ framing round trip
NoLimits ==
  [clients |-> 0, posts |-> 0, sids |-> 0, msgs |-> 0, pings |-> 0,
   ticks |-> 0, sends |-> 0, inflight |-> 0]

\* The texts of up to n characters over the set C.
RECURSIVE Texts(_, _)
Texts(C, n) ==
  IF n = 0 THEN {<<>>}
  ELSE LET T == Texts(C, n - 1) IN
       T \cup {Append(s, c) : s \in {x \in T : Len(x) = n - 1}, c \in C}

\* The sequences of up to n elements of the set S.
RECURSIVE SeqsUpTo(_, _)
SeqsUpTo(S, n) ==
  IF n = 0 THEN {<<>>}
  ELSE LET T == SeqsUpTo(S, n - 1) IN
       T \cup {Append(s, x) : s \in {y \in T : Len(y) = n - 1}, x \in S}

\* The characters of the strings framed: a, a double quote, a line feed and
\* e with an acute accent (two bytes in UTF-8).
StrChars == {97, 34, 10, 233}
\* The numbers framed.
JsonNumbers == {0, 7, 12}

JsonStrings == {JStr(s) : s \in Texts(StrChars, MaxStrLen)}

JsonScalars ==
  {JNull, JBool(0), JBool(1)} \cup {JNum(n) : n \in JsonNumbers}
    \cup JsonStrings

\* Objects whose keys are distinct.
JsonObjects ==
  {JObj(ms) : ms \in {m \in SeqsUpTo({<<k[2], v>> : k \in JsonStrings,
                                                   v \in JsonScalars},
                                     MaxMembers) :
                        \A i, j \in 1..Len(m) : i # j => m[i][1] # m[j][1]}}

JsonValues ==
  JsonScalars \cup {JArr(vs) : vs \in SeqsUpTo(JsonScalars, MaxArrLen)}
    \cup JsonObjects

\* A fresh parser, and encode(x) of one value x about to be written to it.
InitParser ==
  /\ InitWith(NoLimits)
  /\ InitHashIdle
  /\ InitMcpIdle
  /\ \E x \in JsonValues :
       /\ sent = <<x>>
       /\ wire = Encode(x)
       /\ written = <<[kind |-> "frame", bytes |-> Encode(x)]>>
  /\ buffer = <<>>
  /\ received = <<>>
  /\ feeds = 0

\* stdout delivers the next k bytes as one chunk: parser.feed(chunk).
FeedChunk(k) ==
  /\ LET r == Feed(buffer, SubSeq(wire, 1, k)) IN
       /\ buffer' = r.buffer
       /\ received' = received \o r.out
  /\ wire' = SubSeq(wire, k + 1, Len(wire))
  /\ feeds' = IF feeds < MaxFeedsCounted THEN feeds + 1 ELSE feeds
  /\ UNCHANGED <<now, servers, child, nextPid, sess, nextClient, post, lim,
                 sent, written, hashVars, sendCalls, mcpVars, edgeVars>>

NextParser == \E k \in 1..Len(wire) : FeedChunk(k)

SpecParser == InitParser /\ [][NextParser]_vars

\* ------------------------------------------- a stream of several frames
\* What a child may write besides well-formed frames.
\* "X: 1\r\n\r\n": a header block with no Content-Length.
NoLengthBlock ==
  <<88, 58, 32, 49, 13, 10, 13, 10>>

\* "Content-Length: x\r\n\r\n" and "Content-Length: 5x\r\n\r\n": header
\* blocks whose Content-Length is not a number.
TextLengthBlock ==
  <<67, 111, 110, 116, 101, 110, 116, 45, 76, 101, 110, 103, 116, 104, 58, 32, 120, 13, 10, 13, 10>>

DigitTextLengthBlock ==
  <<67, 111, 110, 116, 101, 110, 116, 45, 76, 101, 110, 103, 116, 104, 58, 32, 53, 120, 13, 10, 13, 10>>

\* "Content-Length: 1\r\n\r\n{": a complete body that is not JSON.
BadJsonFrame ==
  <<67, 111, 110, 116, 101, 110, 116, 45, 76, 101, 110, 103, 116, 104, 58, 32, 49, 13, 10, 13, 10, 123>>

StreamValues == {JNum(7), JStr(<<233>>), JArr(<<JBool(1)>>)}

\* sent is <<x>> for a frame of x and <<>> for anything else.
Segment(kind, bytes, vals) == [kind |-> kind, bytes |-> bytes, vals |-> vals]

Segments ==
  {Segment("frame", Encode(x), <<x>>) : x \in StreamValues} \cup
  {Segment("nolength", NoLengthBlock, <<>>),
   Segment("badlength", TextLengthBlock, <<>>),
   Segment("badlength", DigitTextLengthBlock, <<>>),
   Segment("badjson", BadJsonFrame, <<>>)}

RECURSIVE BytesOf(_)
BytesOf(segs) ==
  IF segs = <<>> THEN <<>> ELSE Head(segs).bytes \o BytesOf(Tail(segs))

RECURSIVE ValuesOf(_)
ValuesOf(segs) ==
  IF segs = <<>> THEN <<>> ELSE Head(segs).vals \o ValuesOf(Tail(segs))

\* A fresh parser, and the segments about to be written to it.
InitStream ==
  /\ InitWith(NoLimits)
  /\ InitHashIdle
  /\ InitMcpIdle
  /\ \E segs \in SeqsUpTo(Segments, MaxSegments) \ {<<>>} :
       /\ written = [i \in 1..Len(segs) |->
                       [kind |-> segs[i].kind, bytes |-> segs[i].bytes]]
       /\ sent = ValuesOf(segs)
       /\ wire = BytesOf(segs)
  /\ buffer = <<>>
  /\ received = <<>>
  /\ feeds = 0

SpecStream == InitStream /\ [][NextParser]_vars

\* ------------------------------------------------------ serverId of params
\* The package names and the characters of parameter keys and values: p, q
\* and a, b.
PackageNames == {<<112>>, <<113>>}
ParamChars == {97, 98}

ParamKeys == Texts(ParamChars, MaxKeyLen) \ {<<>>}
ParamValues == Texts(ParamChars, MaxValueLen)

\* The query parameters of a request, in the order they were given.
ParamMaps ==
  {m \in SeqsUpTo(ParamKeys \X ParamValues, MaxParams) :
     \A i, j \in 1..Len(m) : i # j => m[i][1] # m[j][1]}

Requests == [pkg : PackageNames, params : ParamMaps]

\* Two requests, neither served yet.
InitHash ==
  /\ InitWith(NoLimits)
  /\ InitParserIdle
  /\ InitMcpIdle
  /\ requests \in [1..2 -> Requests]
  /\ spawnedWith = {}
  /\ handed = [i \in 1..2 |-> <<"none">>]

\* handleSSE and handleMessage on request i: computeServerId, and
\* getOrCreateServer's lookup by that key. A child is spawned with the
\* environment built from the params of the request that finds no entry.
ServeRequest(i) ==
  /\ handed[i] = <<"none">>
  /\ LET id == ComputeServerId(requests[i].pkg, requests[i].params)
         E == {e \in spawnedWith : e.id = id}
     IN IF E = {}
        THEN /\ spawnedWith' = spawnedWith \cup
                                 {[id |-> id, params |-> requests[i].params]}
             /\ handed' = [handed EXCEPT ![i] = <<"child", requests[i].params>>]
        ELSE /\ spawnedWith' = spawnedWith
             /\ handed' = [handed EXCEPT ![i] =
                             <<"child", (CHOOSE e \in E : TRUE).params>>]
  /\ UNCHANGED <<now, servers, child, nextPid, sess, nextClient, post, lim,
                 parserVars, requests, sendCalls, mcpVars, edgeVars>>

NextHash == \E i \in DOMAIN requests : ServeRequest(i)

SpecHash == InitHash /\ [][NextHash]_vars

\* ------------------------------------------------------------ POST /mcp
\* The bodies a client may post.
McpIds ==
  {NoId, NullId, <<"num", 0>>, <<"num", 1>>, <<"str", "">>, <<"str", "a">>}

McpMethods ==
  ListMethods \cup {"initialize", "notifications/initialized", "unknown/method"}

NoParams ==
  [present |-> FALSE, protocolVersion |-> "undefined",
   capabilities |-> "undefined", clientInfo |-> "undefined"]

McpParams ==
  {NoParams} \cup
  [present : {TRUE},
   protocolVersion : {"undefined", MCP_PROTOCOL_VERSION, "1.0.0"},
   capabilities : {"caps"},
   clientInfo : {"undefined", "info"}]

NoBody(kind) ==
  [parse |-> kind, jsonrpc |-> "undefined", id |-> NoId,
   method |-> "undefined", params |-> NoParams]

McpBodies ==
  {NoBody("unparseable"), NoBody("null"), NoBody("scalar")} \cup
  [parse : {"object"}, jsonrpc : {"undefined", "2.0", "1.0"}, id : McpIds,
   method : McpMethods, params : McpParams]

\* POST /mcp with body r: handleMCPRequest runs to its response. reply keeps
\* the request, its number and the response.
McpRequest(r) ==
  /\ IF reply = <<>> THEN TRUE ELSE reply[1].n < lim.requests
  /\ LET h == HandleMCPRequest(mcp, r) IN
       /\ mcp' = h.mcp
       /\ reply' = <<[n |-> IF reply = <<>> THEN 1 ELSE reply[1].n + 1,
                     req |-> r, res |-> h.res]>>
  /\ UNCHANGED <<now, servers, child, nextPid, sess, nextClient, post, lim,
                 pureVars, sendCalls, edgeVars>>

\* mcpHandler.reset()
Reset ==
  /\ mcp' = NoMcp
  /\ UNCHANGED <<now, servers, child, nextPid, sess, nextClient, post, lim,
                 pureVars, sendCalls, reply, edgeVars>>

McpLimits == NoLimits @@ [requests |-> McpPosts]

InitMcp ==
  /\ InitWith(McpLimits)
  /\ InitParserIdle
  /\ InitHashIdle
  /\ InitMcpIdle

NextMcp ==
  \/ \E r \in McpBodies : McpRequest(r)
  \/ Reset

SpecMcp == InitMcp /\ [][NextMcp]_vars

\* ------------------------------------------- the validation functions
\* s followed by as many "a" as make n characters, and the same with the
\* "a" in front.
PadRight(s, n) == s \o [i \in 1..(n - Len(s)) |-> 97]

PadLeft(s, n) == [i \in 1..(n - Len(s)) |-> 97] \o s

\* The characters of the names validated: a . / \ @ ;
NameChars == {97, 46, 47, 92, 64, 59}

ShortNames == Texts(NameChars, MaxNameLen)

\* "package/../traverse"
TraversePackage ==
  <<112, 97, 99, 107, 97, 103, 101, 47, 46, 46, 47, 116, 114, 97, 118, 101, 114, 115, 101>>

\* Names around the length limit, and the short ones.
CandidateNames ==
  ShortNames \cup {TraversePackage} \cup
  {PadRight(s, n) : s \in ShortNames,
                   n \in (MaxPackageNameLength - 1)..(MaxPackageNameLength + 1)}

\* Values around the length limit: a and ; in the first or the last places.
ShortValues == Texts({97, 59}, MaxShortValueLen)

CandidateValues ==
  ShortValues \cup
  {PadRight(s, n) : s \in ShortValues,
                   n \in (MaxParamValueLength - 1)..(MaxParamValueLength + 1)}
  \cup
  {PadLeft(s, n) : s \in ShortValues,
                  n \in (MaxParamValueLength - 1)..(MaxParamValueLength + 1)}

CandidateKeys ==
  {PadRight(<<107>>, n) :
     n \in {1, MaxParamKeyLength, MaxParamKeyLength + 1}}

CandidateParams ==
  {<<>>} \cup {<< <<k, v>> >> : k \in CandidateKeys, v \in CandidateValues}

NoCall == validated = <<>> /\ projected = <<>>

\* validatePackageName(name) is called.
ValidateCall(name) ==
  /\ NoCall
  /\ validated' = <<[name |-> name,
                     reason |-> ValidatePackageName(name),
                     returned |-> IF ValidatePackageName(name) = "ok"
                                  THEN ReturnedName(name) ELSE <<>>]>>
  /\ UNCHANGED <<now, servers, child, nextPid, sess, nextClient, post, lim,
                 pureVars, sendCalls, mcpVars, projected, libVars>>

\* validateInputLimits(params) is called, and the values of params are
\* projected with sanitizeEnvValue.
ProjectCall(params) ==
  /\ NoCall
  /\ projected' = <<[params |-> params,
                     limits |-> ValidateInputLimits(params),
                     env |-> [i \in 1..Len(params) |->
                                SanitizeEnvValue(params[i][2])]]>>
  /\ UNCHANGED <<now, servers, child, nextPid, sess, nextClient, post, lim,
                 pureVars, sendCalls, mcpVars, validated, libVars>>

InitValidate ==
  /\ InitWith(NoLimits)
  /\ InitParserIdle
  /\ InitHashIdle
  /\ InitMcpIdle

NextValidate ==
  \/ \E name \in CandidateNames : ValidateCall(name)
  \/ \E params \in CandidateParams : ProjectCall(params)

SpecValidate == InitValidate /\ [][NextValidate]_vars

\* ------------------------------------------------------ validatePackage
\* "p" and "@s/n" are npm packages with 500 downloads, "lo" one with 5;
\* "py" is a PyPI package with a description of 3 characters.
PackageWorld ==
  [npm |-> {<<112>>, <<64, 115, 47, 110>>, UnpopularPackage},
   pypi |-> {PythonPackage},
   downloads |-> (<<112>> :> 500) @@ (<<64, 115, 47, 110>> :> 500)
                   @@ (UnpopularPackage :> 5),
   description |-> (PythonPackage :> 3)]

\* "p", "p@1", "lo", "py", "zz", "x/sse", "@s/n", "@s/n@1"
RegistryNames ==
  {<<112>>, <<112, 64, 49>>, UnpopularPackage, PythonPackage, UnknownPackage,
   <<120, 47, 115, 115, 101>>, <<64, 115, 47, 110>>,
   <<64, 115, 47, 110, 64, 49>>}

\* What validatePackage returns when the cache has no entry for the name;
\* statsUp: the fetch of the download counts is answered.
Verdict(name, w, statsUp) ==
  LET type == DetectPackageType(name, w) IN
  IF type = "REMOTE_SERVER_NOT_SUPPORTED"
  THEN [valid |-> FALSE, type |-> "remote", error |-> type]
  ELSE IF type = "PACKAGE_NOT_FOUND"
  THEN [valid |-> FALSE, type |-> "unknown", error |-> type]
  ELSE IF type = "npm" /\ ~statsUp
  THEN [valid |-> FALSE, type |-> "unknown", error |-> "VALIDATION_ERROR"]
  ELSE [valid |-> ValidatePackage(name, w), type |-> type, error |-> ""]

\* The requests validatePackage makes when the cache has no entry for the
\* name: <<host, name asked for>>, in order.
Probes(name, w) ==
  LET asked == RegistryName(name)
      npm == <<"registry.npmjs.org", asked>>
  IN CASE DetectPackageType(name, w) = "REMOTE_SERVER_NOT_SUPPORTED" -> <<>>
       [] DetectPackageType(name, w) = "npm" ->
            <<npm, <<"api.npmjs.org", asked>> >>
       [] OTHER -> <<npm, <<"pypi.org", asked>> >>

\* validatePackage(packageName, downloadCache) against the registries w.
ValidatePackageCall(name, w, statsUp) ==
  /\ Len(validations) < MaxValidations
  /\ IF name \in DOMAIN downloadCache
       THEN /\ validations' =
                 Append(validations,
                        [name |-> name, verdict |-> downloadCache[name],
                         detected |-> "", probes |-> <<>>])
            /\ UNCHANGED downloadCache
       ELSE /\ validations' =
                 Append(validations,
                        [name |-> name, verdict |-> Verdict(name, w, statsUp),
                         detected |-> DetectPackageType(name, w),
                         probes |-> Probes(name, w)])
            /\ downloadCache' =
                 IF Verdict(name, w, statsUp).error = ""
                 THEN (name :> Verdict(name, w, statsUp)) @@ downloadCache
                 ELSE downloadCache
  /\ UNCHANGED <<proxyVars, built, mcpProcesses, started, instances, answers>>

\* The callback CacheManager sets up with setInterval, every hour.
HourlyClear ==
  /\ downloadCache # <<>>
  /\ downloadCache' = <<>>
  /\ UNCHANGED <<proxyVars, validations, built, mcpProcesses, started,
                 instances, answers>>

FlushMark == [valid |-> FALSE, type |-> "clearAll", error |-> ""]

\* CacheManager.clearAll(), the explicit flush; the history keeps a mark.
ClearAll ==
  /\ Len(validations) < MaxValidations
  /\ downloadCache' = <<>>
  /\ validations' = Append(validations,
                           [name |-> <<>>, verdict |-> FlushMark,
                            detected |-> "", probes |-> <<>>])
  /\ UNCHANGED <<proxyVars, built, mcpProcesses, started, instances, answers>>

NextPackages ==
  \/ \E name \in RegistryNames, statsUp \in BOOLEAN :
        ValidatePackageCall(name, PackageWorld, statsUp)
  \/ HourlyClear
  \/ ClearAll

SpecPackages == InitValidate /\ [][NextPackages]_vars

\* ------------------------------------------------------ command builders
\* "p", "p@1", "p@latest", "p@", "p@1@2", "@s/n", "@s/n@1", "@s/n@latest"
BuildPackages ==
  {<<112>>, <<112, 64, 49>>, <<112, 64>> \o Latest, <<112, 64>>,
   <<112, 64, 49, 64, 50>>, <<64, 115, 47, 110>>, <<64, 115, 47, 110, 64, 49>>,
   <<64, 115, 47, 110, 64>> \o Latest}

\* The args query parameter: absent, "a b", "b  a", "a%20b", "a;b", "%",
\* a token of 101 characters, and 21 tokens.
BuildArgs ==
  {<<>>, <<97, 32, 98>>, <<98, 32, 32, 97>>, <<97, 37, 50, 48, 98>>,
   <<97, 59, 98>>, <<37>>, PadRight(<<98>>, MaxArgLength + 1),
   [i \in 1..(2 * MaxArgs + 1) |-> IF i % 2 = 1 THEN 97 ELSE 32]}

\* A child is to be spawned for the package: the command MCPProxy builds
\* and the command ProcessManager builds.
BuildCall(name, type, args) ==
  /\ built = <<>>
  /\ built' = <<[name |-> name, type |-> type, args |-> args,
                 proxy |-> BuildCommand(name, type),
                 manager |-> BuildMCPCommand(name, type, args)]>>
  /\ UNCHANGED <<proxyVars, downloadCache, validations, mcpProcesses, started,
                 instances, answers>>

NextBuild ==
  \E name \in BuildPackages, type \in {"npm", "python"}, args \in BuildArgs :
    BuildCall(name, type, args)

SpecBuild == InitValidate /\ [][NextBuild]_vars

\* ------------------------------------------------------- ProcessManager
\* A processId is `${packageName}_${protocol}_${Date.now()}`: the package and
\* the millisecond of the call, for the one protocol used.
pmRest == <<servers, child, nextPid, sess, nextClient, post, lim, pureVars,
            sendCalls, mcpVars, validated, projected, downloadCache,
            validations, built, instances, answers>>

\* "p" and "p@1"
StartPackages == {<<112>>, <<112, 64, 49>>}

\* The args parameter: absent, "a;b"
StartArgs == {<<>>, <<97, 59, 98>>}

\* How startMCPServer ends: "ok", or the error it throws. runner is what
\* commandExists answers for the command.
StartOutcome(procs, name, type, args, runner) ==
  IF Cardinality(procs) >= MaxConcurrentProcesses
  THEN "MAX_PROCESSES_EXCEEDED"
  ELSE IF BuildMCPCommand(name, type, args).error # ""
  THEN BuildMCPCommand(name, type, args).error
  ELSE IF ~runner THEN "RUNTIME_NOT_AVAILABLE"
  ELSE "ok"

\* A start that registers the process before any of its tests.
AfterStartSetFirst(procs, id, outcome) == procs \cup {id}

\* The process map after startMCPServer: the entry is set after every throw.
AfterStart(procs, id, outcome) ==
  IF outcome = "ok" THEN procs \cup {id} ELSE procs

\* startMCPServer(packageName, protocol, packageType, params), up to its
\* await; n tells one call from the next.
StartMCPServer(name, type, args, runner) ==
  LET outcome == StartOutcome(mcpProcesses, name, type, args, runner) IN
  /\ mcpProcesses' = AfterStart(mcpProcesses, <<name, now>>, outcome)
  /\ started' = <<[n |-> IF started = <<>> THEN 0 ELSE 1 - started[1].n,
                   outcome |-> outcome]>>
  /\ UNCHANGED <<now, pmRest>>

\* The 'exit' or 'error' handler of a registered process.
ProcessGone(id) ==
  /\ id \in mcpProcesses
  /\ mcpProcesses' = mcpProcesses \ {id}
  /\ UNCHANGED <<now, started, pmRest>>

\* killAllProcesses()
KillAllProcesses ==
  /\ mcpProcesses # {}
  /\ mcpProcesses' = {}
  /\ UNCHANGED <<now, started, pmRest>>

\* A millisecond passes.
StartClock ==
  /\ now < MaxStartTime
  /\ now' = now + 1
  /\ UNCHANGED <<mcpProcesses, started, pmRest>>

NextStart ==
  \/ \E name \in StartPackages, type \in {"npm", "python"},
        args \in StartArgs, runner \in BOOLEAN :
        StartMCPServer(name, type, args, runner)
  \/ \E id \in mcpProcesses : ProcessGone(id)
  \/ KillAllProcesses
  \/ StartClock

SpecStart == InitValidate /\ [][NextStart]_vars

\* ------------------------------------------------------ InstanceManager
\* The ids randomId() has given out are 1..Len(instances). An instance is
\* its status, whether stoppedAt is set, and whether the create() that made
\* it still waits in Bun.sleep(10).
InstanceIds == 1..MaxInstances

\* create(spec) up to its await: the base object is stored as 'starting'.
CreateStart ==
  /\ Len(instances) < MaxInstances
  /\ instances' = Append(instances, [status |-> "starting", stoppedAt |-> FALSE,
                                     pending |-> TRUE])
  /\ UNCHANGED <<proxyVars, downloadCache, validations, built, mcpProcesses,
                 started, answers>>

\* What create() stores after its await: { ...base, status: 'running' }.
RunningCopy(inst) ==
  [status |-> "running", stoppedAt |-> inst.stoppedAt, pending |-> FALSE]

\* create(spec) after Bun.sleep(10).
CreateFinish(id) ==
  /\ id \in DOMAIN instances
  /\ instances[id].pending
  /\ instances' = [instances EXCEPT ![id] = RunningCopy(@)]
  /\ UNCHANGED <<proxyVars, downloadCache, validations, built, mcpProcesses,
                 started, answers>>

\* stop(id): false for an unknown id, else the object stored is marked
\* 'stopped' in place.
Stop(id) ==
  /\ Len(answers) < MaxAnswers
  /\ IF id \in DOMAIN instances
       THEN /\ instances' = [instances EXCEPT ![id].status = "stopped",
                                               ![id].stoppedAt = TRUE]
            /\ answers' = Append(answers, [op |-> "stop", id |-> id,
                                           answer |-> "true"])
       ELSE /\ answers' = Append(answers, [op |-> "stop", id |-> id,
                                           answer |-> "false"])
            /\ UNCHANGED instances
  /\ UNCHANGED <<proxyVars, downloadCache, validations, built, mcpProcesses,
                 started>>

\* The answer of call(id, payload).
CallAnswer(id) ==
  IF id \notin DOMAIN instances THEN "not_found"
  ELSE IF instances[id].status # "running" THEN "not_running"
  ELSE "not_implemented"

\* call(id, payload)
Call(id) ==
  /\ Len(answers) < MaxAnswers
  /\ answers' = Append(answers, [op |-> "call", id |-> id,
                                 answer |-> CallAnswer(id)])
  /\ UNCHANGED <<proxyVars, downloadCache, validations, built, mcpProcesses,
                 started, instances>>

NextInstances ==
  \/ CreateStart
  \/ \E id \in InstanceIds : CreateFinish(id)
  \/ \E id \in InstanceIds : Stop(id)
  \/ \E id \in InstanceIds : Call(id)

SpecInstances == InitValidate /\ [][NextInstances]_vars

\* ================================================================ claims
\* The children ever spawned for serverId s.
ChildrenOf(s) == {p \in Pids : child[p].st # "none" /\ child[p].sid = s}

\* No child of serverId s has exited, failed to start or been killed.
Undisturbed(s) == \A p \in ChildrenOf(s) : Live(p)

\* The message events written to session c's stream, in order.
IsMessage(e) == e[1] = "message"
MsgsOf(c) == SelectSeq(sess[c].stream, IsMessage)

\* C1: at any instant at most one live child (spawned, not yet exited, not
\* killed) exists for any given serverId.
C1_OneLiveChildPerServerId ==
  \A p, q \in Pids :
    (p # q /\ Live(p) /\ Live(q)) => child[p].sid # child[q].sid

C4_FanoutExactlyOnce ==
  [][\A p \in Pids :
       child'[p].emitted = child[p].emitted + 1 =>
         \A c \in ClientIds :
           LET m == <<"message", p, child'[p].emitted>> IN
           IF c \in child[p].clients /\ ~sess[c].closed /\ sess[c].ctrl = "open"
           THEN sess'[c].stream = Append(sess[c].stream, m)
           ELSE sess'[c].stream = sess[c].stream]_vars

\* Two open sessions on different children; one child has emitted and its
\* message is on its own subscriber's stream only.
C4_Witness ==
  \E c, d \in ClientIds :
    /\ sess[c].pc = "open" /\ sess[d].pc = "open"
    /\ ~sess[d].closed
    /\ sess[c].pid # sess[d].pid
    /\ Len(MsgsOf(c)) = 1
    /\ MsgsOf(d) = <<>>

\* C5 as stated: the message events on a session's stream are the first
\* messages its child's parser emitted.
C5_StreamIsPrefix ==
  \A c \in ClientIds :
    \A i \in 1..Len(MsgsOf(c)) :
      MsgsOf(c)[i] = <<"message", sess[c].pid, i>>

\* C5 as amended: the message events on a session's stream are a contiguous
\* run of the messages its child's parser emitted, in emission order, none
\* twice.
C5_StreamIsContiguousRun ==
  \A c \in ClientIds :
    LET M == MsgsOf(c) IN
    \A i \in 1..Len(M) :
      /\ M[i][2] = sess[c].pid
      /\ M[i][3] \in 1..child[sess[c].pid].emitted
      /\ i > 1 => M[i][3] = M[i - 1][3] + 1

\* A session that subscribed after its child's first message and has
\* received a later one.
C5_Witness ==
  \E c \in ClientIds :
    /\ Len(MsgsOf(c)) >= 1
    /\ MsgsOf(c)[1][3] > 1

\* C8: a live child with no subscribers is never idle for more than the
\* 30 minutes plus one reap interval.
C8_IdleChildReapedWithinInterval ==
  \A p \in Pids :
    (Live(p) /\ child[p].clients = {})
    => now - child[p].lastActivity <= MaxInactivity + ReapInterval

\* C9: whichever triggers have fired, each effect of cleanup has been
\* performed once if the session is closed and not at all otherwise, and a
\* closed session has no keepalive, no handler on its child's bus and no
\* open controller.
C9_CleanupEffectsOnce ==
  \A c \in ClientIds :
    LET n == IF sess[c].closed THEN 1 ELSE 0 IN
    /\ sess[c].fx = [removeClient |-> n, off |-> n, clearInterval |-> n,
                     close |-> n]
    /\ sess[c].closed =>
         /\ ~sess[c].keepAlive
         /\ sess[c].ctrl # "open"
         /\ c \notin child[sess[c].pid].listeners

\* Stream cancel, request abort and the 30 minute timer have all fired for
\* one session.
C9_Witness ==
  \E c \in ClientIds :
    /\ sess[c].pc = "open"
    /\ sess[c].ctrl = "cancelled"
    /\ sess[c].aborted
    /\ ~sess[c].timer
    /\ sess[c].fx.removeClient = 1

\* C10: a keepalive ping sent to a session whose child has exited or been
\* killed tears the session down.
C10_DeadChildTearsDownOnNextEvent ==
  [][\A c \in ClientIds :
       ( /\ sess[c].pc = "open"
         /\ ~sess[c].closed
         /\ ~Live(sess[c].pid)
         /\ sess'[c].pings = sess[c].pings + 1 )
       => sess'[c].closed]_vars

\* Two parameter maps are equal: the same keys with the same values, in
\* whatever order.
SameParams(m1, m2) ==
  {m1[i] : i \in 1..Len(m1)} = {m2[i] : i \in 1..Len(m2)}

\* C3: two requests served for the same package have the same serverId only
\* if their parameter maps are equal, and the child a request is handed was
\* spawned with parameters equal to its own.
C3_DistinctParamsDistinctChildren ==
  /\ \A i, j \in DOMAIN requests :
       ( /\ handed[i] # <<"none">> /\ handed[j] # <<"none">>
         /\ requests[i].pkg = requests[j].pkg
         /\ ComputeServerId(requests[i].pkg, requests[i].params)
              = ComputeServerId(requests[j].pkg, requests[j].params) )
       => SameParams(requests[i].params, requests[j].params)
  /\ \A i \in DOMAIN requests :
       handed[i] # <<"none">> => SameParams(handed[i][2], requests[i].params)

\* C6: whatever the chunks, the parser has emitted nothing while a byte of
\* the frame is still to come, and exactly the value encoded once the last
\* byte has been fed.
C6_OneMessageOnLastByte ==
  IF wire # <<>> THEN received = <<>> ELSE received = sent

\* A frame whose body holds a two-byte character and whose length has two
\* digits has been fed in three chunks or more and its value emitted.
C6_Witness ==
  /\ sent # <<>>
  /\ wire = <<>>
  /\ feeds >= 3
  /\ received = sent
  /\ Len(Utf8Encode(JsonStringify(sent[1]))) > Len(JsonStringify(sent[1]))
  /\ Len(JsonStringify(sent[1])) >= 10

\* C7: the registry never holds more than the configured cap of children.
C7_RegistryWithinCap ==
  Cardinality({s \in ServerIds : servers[s] # 0}) <= MaxConcurrentProcesses

\* C11: a POST for the serverId of an open SSE session is answered 202 and
\* writes one message to the stdin of the child that session is subscribed
\* to.
C11_PostReachesSessionsChild ==
  [][\A q \in PostIds, c \in ClientIds :
       ( /\ post[q].pc = "acquired"
         /\ post'[q].pc = "done"
         /\ sess[c].pc = "open"
         /\ ~sess[c].closed
         /\ sess[c].sid = post[q].sid )
       => /\ post'[q].status = 202
          /\ child'[sess[c].pid].stdin = child[sess[c].pid].stdin + 1]_vars

\* C12: send fails, writing nothing and changing no record, when the registry
\* has no entry for the serverId or the entry's child is not alive; otherwise
\* it writes exactly one frame to that child and sets its lastActivity to now.
\* Both callers are covered: the direct call and handleMessage.
SendFails(sid) == IF servers[sid] = 0 THEN TRUE ELSE ~Live(servers[sid])

SendWrote(sid) ==
  child' = [child EXCEPT ![servers[sid]].stdin = @ + 1,
                         ![servers[sid]].lastActivity = now]

C13_RejectedNameNeverSpawns ==
  \A s \in ServerIds :
    ValidatePackageName(PackageName(s)) # "ok"
      => ChildrenOf(s) = {} /\ servers[s] = 0

\* C14: a child is spawned only by a request whose package detectPackageType
\* resolved; a request whose package it does not resolve (a remote server, a
\* name neither registry knows) ends in the failure answer with the registry
\* and every child record unchanged.
Resolves(s) ==
  /\ ~IsRemoteServer(PackageName(s))
  /\ RegistryName(PackageName(s)) \in World.npm \cup World.pypi

C14_SpawnOnlyAfterDetection ==
  [][/\ \A p \in Pids :
          (child[p].st = "none" /\ child'[p].st # "none") =>
            /\ Resolves(child'[p].sid)
            /\ \/ \E c \in ClientIds : /\ sess[c].pc = "detect"
                                       /\ sess'[c].pc = "acquired"
                                       /\ sess[c].sid = child'[p].sid
               \/ \E q \in PostIds : /\ post[q].pc = "detect"
                                     /\ post'[q].pc = "acquired"
                                     /\ post[q].sid = child'[p].sid
     /\ \A c \in ClientIds :
          (sess[c].pc = "detect" /\ sess'[c].pc # "detect"
             /\ ~Resolves(sess[c].sid)) =>
            /\ sess'[c].pc = "failed" /\ sess'[c].status = 500
            /\ UNCHANGED <<servers, child, nextPid>>
     /\ \A q \in PostIds :
          (post[q].pc = "detect" /\ post'[q].pc # "detect"
             /\ ~Resolves(post[q].sid)) =>
            /\ post'[q].pc = "done" /\ post'[q].status = 500
            /\ UNCHANGED <<servers, child, nextPid>>]_vars

\* A GET for the remote server failed and a POST for the unknown name
\* failed, with nothing spawned and an empty registry.
C14_Witness ==
  /\ \E c \in ClientIds : /\ sess[c].pc = "failed"
                          /\ sess[c].status = 500
                          /\ PackageName(sess[c].sid) = RemotePackage
  /\ \E q \in PostIds : /\ post[q].pc = "done"
                        /\ post[q].status = 500
                        /\ PackageName(post[q].sid) = UnknownPackage
  /\ nextPid = 1
  /\ \A s \in ServerIds : servers[s] = 0

\* C15: no child is spawned for a package the quality gate (validatePackage)
\* does not admit.
C15_SpawnOnlyAfterQualityGate ==
  \A s \in ServerIds :
    ChildrenOf(s) # {} => ValidatePackage(PackageName(s), World)
\* C20: a request whose package name holds a shell metacharacter is answered
\* 400 with INVALID_PACKAGE_NAME:shell_metacharacters, and no child is
\* spawned for it.
HasShellChar(name) == \E i \in 1..Len(name) : name[i] \in ShellChars

C20_ShellNameAnswered400 ==
  /\ \A c \in ClientIds :
       (sess[c].pc \in {"failed", "open"}
          /\ HasShellChar(PackageName(sess[c].sid))) =>
         /\ sess[c].status = 400
         /\ ValidatePackageName(PackageName(sess[c].sid))
              = "shell_metacharacters"
         /\ ChildrenOf(sess[c].sid) = {}
  /\ \A q \in PostIds :
       (post[q].pc = "done" /\ HasShellChar(PackageName(post[q].sid))) =>
         /\ post[q].status = 400
         /\ ValidatePackageName(PackageName(post[q].sid))
              = "shell_metacharacters"
         /\ ChildrenOf(post[q].sid) = {}
\* A step that answers a POST /mcp, the request it answers and the answer.
Answered == reply' # reply

Req == reply'[1].req

Res == reply'[1].res

\* The request passed the jsonrpc test and went to the switch.
Dispatched == Req.parse = "object" /\ Req.jsonrpc = "2.0"

\* C16: an initialize request with jsonrpc "2.0" and params gets 200 with the initialize
\* result, and the handler records the client's capabilities and the
\* version, if params.protocolVersion is "2024-11-05"; otherwise it gets 400
\* with code -32000, data.supported = ["2024-11-05"] and data.requested the
\* version it asked for, and the handler's state is unchanged.
C16_InitializeByVersion ==
  [][(Answered /\ Dispatched /\ Req.method = "initialize"
        /\ Req.params.present) =>
       IF Req.params.protocolVersion = MCP_PROTOCOL_VERSION
       THEN /\ Res.status = 200
            /\ Res.result = "initialize"
            /\ mcp'.protocolVersion = MCP_PROTOCOL_VERSION
            /\ mcp'.clientCapabilities = Req.params.capabilities
       ELSE /\ Res.status = 400
            /\ Res.code = UNSUPPORTED_PROTOCOL_VERSION
            /\ Res.data.supported = <<MCP_PROTOCOL_VERSION>>
            /\ Res.data.requested = Req.params.protocolVersion
            /\ mcp' = mcp]_vars

\* C17: the handler starts not initialized; a notifications/initialized
\* sets the flag and nothing else does; nothing but reset() clears it; and
\* a list request is answered SERVER_NOT_READY (400) while the flag is
\* clear and with its list (200) while it is set.
C17_ListsOnlyAfterInitialized ==
  /\ ~mcp.isInitialized
  /\ [][/\ (Answered /\ Dispatched
              /\ Req.method = "notifications/initialized")
             => mcp'.isInitialized /\ Res.status = 204
        /\ (~mcp.isInitialized /\ mcp'.isInitialized)
             => (Answered /\ Dispatched
                   /\ Req.method = "notifications/initialized")
        /\ (mcp.isInitialized /\ ~mcp'.isInitialized)
             => (~Answered /\ mcp' = NoMcp)
        /\ (Answered /\ Dispatched /\ Req.method \in ListMethods)
             => /\ mcp' = mcp
                /\ IF mcp.isInitialized
                   THEN Res.status = 200 /\ Res.result = Req.method
                   ELSE /\ Res.status = 400
                        /\ Res.code = SERVER_NOT_READY]_vars

\* A list was served after the notification.
C17_Witness ==
  /\ reply # <<>>
  /\ reply[1].n = 2
  /\ reply[1].req.method = "tools/list"
  /\ reply[1].req.jsonrpc = "2.0"
  /\ reply[1].res.status = 200
  /\ mcp.isInitialized

\* C18: a body that is no JSON, or whose jsonrpc member is not "2.0", is
\* answered 400 with code -32602 (id null when the body is no JSON) whatever
\* method it names, and the handler's state is unchanged.
C18_BadEnvelopeRejected ==
  [][(Answered /\ ~Dispatched) =>
       /\ Res.status = 400
       /\ Res.code = INVALID_PARAMS
       /\ Req.parse = "unparseable" => Res.id = NullId
       /\ mcp' = mcp]_vars

\* A notifications/initialized with jsonrpc "1.0" was rejected and left the
\* handler not initialized.
C18_Witness ==
  /\ reply # <<>>
  /\ reply[1].req.parse = "object"
  /\ reply[1].req.jsonrpc = "1.0"
  /\ reply[1].req.method = "notifications/initialized"
  /\ reply[1].res.status = 400
  /\ ~mcp.isInitialized

\* C19: an error envelope carries the id of its request, whatever the id,
\* and null only when the request had no id or its body was no JSON.
C19_ErrorCarriesRequestId ==
  [][(Answered /\ Res.code # 0) =>
       Res.id = IF Req.parse = "object" /\ Req.id # NoId
                THEN Req.id ELSE NullId]_vars
\* C21: validatePackageName rejects every name of at most 200 characters
\* that holds "..", "/./" or a backslash with the reason path_traversal.
HasTraversal(name) ==
  \/ Includes(name, <<46, 46>>)
  \/ Includes(name, <<47, 46, 47>>)
  \/ Includes(name, <<92>>)

C21_TraversalRejectedAsTraversal ==
  \A i \in 1..Len(validated) :
    (Len(validated[i].name) <= MaxPackageNameLength
       /\ HasTraversal(validated[i].name))
      => validated[i].reason = "path_traversal"

\* C22: a name of more than 200 characters is rejected as too_long whatever
\* else is wrong with it, a well-formed name of exactly 200 characters is
\* accepted, and an accepted name is returned as it was given.
C22_LengthLimitAndIdentity ==
  \A i \in 1..Len(validated) :
    LET v == validated[i] IN
    /\ Len(v.name) > MaxPackageNameLength => v.reason = "too_long"
    /\ (Len(v.name) = MaxPackageNameLength
          /\ \A k \in 1..Len(v.name) : v.name[k] = 97) => v.reason = "ok"
    /\ v.reason = "ok" => v.returned = v.name

\* Both sides of the limit were validated: 201 characters with a ";" among
\* them, or 200 letters accepted and returned.
C22_Witness ==
  /\ validated # <<>>
  /\ \/ /\ Len(validated[1].name) = MaxPackageNameLength + 1
        /\ validated[1].name[1] = 59
        /\ validated[1].reason = "too_long"
     \/ /\ Len(validated[1].name) = MaxPackageNameLength
        /\ validated[1].reason = "ok"
        /\ validated[1].returned = validated[1].name

\* C23: a parameter value of more than 1000 characters is accepted by
\* validateInputLimits, and projected to its first 1000 characters with the
\* shell metacharacters removed.
C23_LongValueTruncatedNotRejected ==
  \A i \in 1..Len(projected) :
    \A k \in 1..Len(projected[i].params) :
      LET value == projected[i].params[k][2] IN
      (Len(projected[i].params[k][1]) <= MaxParamKeyLength
         /\ Len(value) > MaxParamValueLength) =>
        /\ projected[i].limits = "ok"
        /\ projected[i].env[k]
             = SelectSeq(SubSeq(value, 1, MaxParamValueLength), NotShellChar)

\* C24: the registry holds a record exactly when its own child has been
\* spawned, has not been seen to exit or fail, and has not been killed by
\* the reaper or by shutdown; no child's exit removes another child's entry.
C24_RegistryHoldsExactlyLiveChildren ==
  \A p \in Pids :
    child[p].st # "none" => (servers[child[p].sid] = p <=> Live(p))

\* C25: the reaper kills a child and removes its entry only if, at that
\* tick, the child has no subscriber and more than 30 minutes have passed
\* since its lastActivity; a child with an open SSE subscriber, or one used
\* in the last 30 minutes, is not killed by the reaper.
OpenSubscribers(p) ==
  {c \in ClientIds : sess[c].pc = "open" /\ ~sess[c].closed /\ sess[c].pid = p}

ReaperTakes(p) ==
  /\ now' # now
  /\ \/ ~child[p].killed /\ child'[p].killed
     \/ servers[child[p].sid] = p /\ servers'[child[p].sid] # p

C25_ReaperKillsOnlyIdleUnsubscribed ==
  [][\A p \in Pids :
       (child[p].st # "none" /\ ReaperTakes(p)) =>
         /\ child[p].clients = {}
         /\ OpenSubscribers(p) = {}
         /\ now' - child[p].lastActivity > MaxInactivity]_vars

\* The reaper has taken a child: killed, out of the registry, idle for more
\* than 30 minutes with no subscriber, and no request was served since.
C25_Witness ==
  \E p \in Pids :
    /\ child[p].killed
    /\ child[p].clients = {}
    /\ servers[child[p].sid] = 0
    /\ now - child[p].lastActivity > MaxInactivity
    /\ \E c \in ClientIds : sess[c].pid = p /\ sess[c].closed

\* The bytes fed so far, the number of segments that lie wholly within
\* them, and the bytes of the first k segments.
AllWritten == BytesOf(written)

FedBytes == Len(AllWritten) - Len(wire)

BytesUpTo(k) == Len(BytesOf(SubSeq(written, 1, k)))

WhollyFed ==
  CHOOSE k \in 0..Len(written) :
    /\ BytesUpTo(k) <= FedBytes
    /\ k < Len(written) => BytesUpTo(k + 1) > FedBytes

OnlyFrames == \A i \in 1..Len(written) : written[i].kind = "frame"

\* C26: a header block with no Content-Length or with one that is not a
\* number is skipped up to its separator, a complete body that is not JSON
\* is dropped without an event, and every well-formed frame written after
\* them is still emitted.
C26_ParserRecovers ==
  (written # <<>> /\ wire = <<>>) => (received = sent /\ buffer = <<>>)

\* C27: for well-formed frames under any chunking, the parser has emitted
\* exactly the frames whose last body byte has been fed, in write order,
\* and its buffer holds exactly the bytes fed after the last of them.
C27_OneMessagePerFrameInOrder ==
  (written # <<>> /\ OnlyFrames) =>
    /\ received = SubSeq(sent, 1, WhollyFed)
    /\ buffer = SubSeq(AllWritten, BytesUpTo(WhollyFed) + 1, FedBytes)

\* Two frames, the first emitted, the second cut inside its body after two
\* or more feeds.
C27_Witness ==
  /\ Len(written) = 2
  /\ OnlyFrames
  /\ feeds >= 2
  /\ Len(received) = 1
  /\ Len(buffer) > Len(HeaderName) + 1 + Len(Separator)
  /\ wire # <<>>

\* C28: the first frame of every SSE stream is one status event with type
\* connected, the package name and the clientId; it is sent once, and no
\* message or ping comes before it, even when the child is emitting already.
C28_StatusIsFirstAndOnce ==
  \A c \in ClientIds :
    LET S == sess[c].stream IN
    /\ sess[c].pc # "open" => S = <<>>
    /\ sess[c].pc = "open" =>
         /\ S # <<>>
         /\ S[1] = <<"status", "connected", PackageName(sess[c].sid), c>>
         /\ \A i \in 2..Len(S) : S[i][1] # "status"

\* A session that subscribed to a child that had emitted already: its
\* stream is the status event and then the child's second message.
C28_Witness ==
  \E c \in ClientIds :
    /\ sess[c].pc = "open"
    /\ Len(sess[c].stream) >= 2
    /\ sess[c].stream[1][1] = "status"
    /\ sess[c].stream[2] = <<"message", sess[c].pid, 2>>

\* C29: when the write to one subscriber fails while child p's message is
\* fanned out, that subscriber alone is cleaned up: every other open
\* subscriber of p gets the message and stays subscribed, so it gets the
\* later ones too, and p stays running and in the registry.
FailedWrites(p) ==
  {c \in child[p].listeners : ~sess[c].closed /\ sess[c].ctrl # "open"}

C29_FailedWriteIsolated ==
  [][\A p \in Pids :
       (child'[p].emitted = child[p].emitted + 1 /\ FailedWrites(p) # {}) =>
         /\ \A c \in FailedWrites(p) :
              /\ sess'[c].closed
              /\ sess'[c].stream = sess[c].stream
              /\ c \notin child'[p].listeners
         /\ \A d \in ClientIds \ FailedWrites(p) :
              /\ sess'[d].closed = sess[d].closed
              /\ \A q \in Pids :
                   /\ d \in child'[q].clients <=> d \in child[q].clients
                   /\ d \in child'[q].listeners <=> d \in child[q].listeners
              /\ (d \in child[p].clients /\ ~sess[d].closed
                    /\ sess[d].ctrl = "open") =>
                   sess'[d].stream =
                     Append(sess[d].stream,
                            <<"message", p, child'[p].emitted>>)
         /\ child'[p].st = child[p].st
         /\ child'[p].killed = child[p].killed
         /\ servers' = servers]_vars

\* Two subscribers of one child: the write to one failed and it was cleaned
\* up; the other has that message and a later one; the child is running
\* and in the registry.
C29_Witness ==
  \E c, d \in ClientIds :
    /\ c # d
    /\ sess[c].pid = sess[d].pid
    /\ sess[c].ctrl = "errored" /\ sess[c].closed /\ ~sess[c].aborted
    /\ sess[d].pc = "open" /\ ~sess[d].closed
    /\ Len(MsgsOf(d)) >= 2
    /\ Len(MsgsOf(c)) < Len(MsgsOf(d)) - 1
    /\ Live(sess[d].pid)
    /\ servers[sess[d].sid] = sess[d].pid

\* C30: whatever the client and the child do, once more than 30 minutes
\* have passed since a session's stream was opened its cleanup has run and
\* its clientId is in no child's clients set.
C30_SessionCleanedUpWithin30Min ==
  \A c \in ClientIds :
    (sess[c].pc = "open" /\ now - sess[c].openedAt > SessionTimeout) =>
      /\ sess[c].closed
      /\ \A p \in Pids : c \notin child[p].clients

\* C31: lastActivity of a child record never decreases, and a successful
\* send, a message received from the child, a subscriber added and a
\* subscriber removed each set it to the current time.
C31_ActivityStampedOnEveryUse ==
  [][\A p \in Pids :
       /\ child'[p].lastActivity >= child[p].lastActivity
       /\ ( \/ child'[p].stdin = child[p].stdin + 1
            \/ child'[p].emitted = child[p].emitted + 1
            \/ child'[p].clients # child[p].clients )
          => child'[p].lastActivity = now']_vars

\* C39: once a session's cleanup has run, no frame is added to its stream,
\* whatever the child emits and whatever keepalive tick comes after.
CleanupHasRun(c) == sess[c].closed \/ sess[c].fx.removeClient > 0

C39_NoFrameAfterCleanup ==
  [][\A c \in ClientIds :
       CleanupHasRun(c) => sess'[c].stream = sess[c].stream]_vars

\* A session that got its child's first message, was cleaned up by the
\* abort of its request, and whose child has emitted again since.
C39_Witness ==
  \E c \in ClientIds :
    /\ sess[c].closed /\ sess[c].aborted /\ sess[c].ctrl = "closed"
    /\ MsgsOf(c) = <<<<"message", sess[c].pid, 1>>>>
    /\ child[sess[c].pid].emitted = 2

\* C40: at every instant the clients set of a child record holds exactly
\* the clientIds of the sessions whose message handler is attached to the
\* record's event bus.
C40_ClientsAreTheAttachedSessions ==
  \A p \in Pids : child[p].clients = child[p].listeners

\* C36: whenever the handler is initialized, an initialize request has
\* succeeded before: the protocol version "2024-11-05" and the client's
\* capabilities are recorded.
C36_InitializedImpliesNegotiated ==
  mcp.isInitialized =>
    /\ mcp.protocolVersion = MCP_PROTOCOL_VERSION
    /\ mcp.clientCapabilities # "null"

\* C37: an initialize request that is answered with an error leaves
\* isInitialized, protocolVersion and clientCapabilities as they were.
C37_FailedInitializeChangesNothing ==
  [][(Answered /\ Dispatched /\ Req.method = "initialize"
        /\ Res.code # 0) => mcp' = mcp]_vars
\* stop(id) has answered true at some point.
StopReturnedTrue(id) ==
  \E i \in 1..Len(answers) :
    answers[i].op = "stop" /\ answers[i].id = id /\ answers[i].answer = "true"

\* C38: the status of an instance only moves forward: once stop(id) has
\* returned true the instance stays 'stopped', whatever a create() still
\* pending does, and a call(id) made after that is answered not_running.
C38_StoppedStaysStopped ==
  /\ \A id \in DOMAIN instances :
       StopReturnedTrue(id) => instances[id].status = "stopped"
  /\ \A i \in 1..Len(answers) : \A j \in (i + 1)..Len(answers) :
       (answers[i].op = "stop" /\ answers[i].answer = "true"
          /\ answers[j].op = "call" /\ answers[j].id = answers[i].id)
         => answers[j].answer = "not_running"

\* The command the specification describes for a package, its type and the
\* tokens of the args parameter.
DescribedCommand(name, type, tokens) ==
  LET parsed == ParsePackageName(name)
      versioned == parsed.version # <<>> /\ parsed.version # Latest
  IN IF type = "npm"
     THEN <<Npx, <<45, 121>>,
            IF versioned THEN parsed.fullName \o <<64>> \o parsed.version
            ELSE parsed.fullName>> \o tokens
     ELSE <<Uvx,
            IF versioned THEN parsed.fullName \o <<61, 61>> \o parsed.version
            ELSE parsed.fullName>> \o tokens

\* The args parameter decodes and passes validateArgs.
ArgsAccepted(args) ==
  /\ DecodeURIComponent(args).error = ""
  /\ ValidateArgs(DecodeURIComponent(args).text).error = ""

\* C33: the child is spawned with fullName@version after the flag -y for a
\* Node package and fullName==version for a Python package (fullName alone
\* when the version is latest), followed by the validated tokens of the args
\* parameter in their order, by MCPProxy and by ProcessManager alike.
C33_SpawnedWithVersionAndArgs ==
  \A i \in 1..Len(built) :
    LET b == built[i]
        described == DescribedCommand(b.name, b.type,
                       ValidateArgs(DecodeURIComponent(b.args).text).tokens)
    IN ArgsAccepted(b.args)
         => /\ b.manager = [error |-> "", argv |-> described]
            /\ b.proxy = described

\* This step is a call of startMCPServer that threw.
StartThrew == started' # started /\ started'[1].outcome # "ok"

\* C35: never more than 10 processes are registered: with 10 registered
\* startMCPServer throws MAX_PROCESSES_EXCEEDED, and a call that throws, for
\* the cap, a missing runner or invalid args, leaves the process map as it
\* was.
C35_CapAndFailedStartLeaveMap ==
  /\ [](Cardinality(mcpProcesses) <= MaxConcurrentProcesses)
  /\ [][StartThrew => mcpProcesses' = mcpProcesses]_vars
  /\ [][(started' # started
          /\ Cardinality(mcpProcesses) = MaxConcurrentProcesses)
         => started'[1].outcome = "MAX_PROCESSES_EXCEEDED"]_vars

\* A start was refused with 10 processes registered.
C35_Witness ==
  /\ Cardinality(mcpProcesses) = MaxConcurrentProcesses
  /\ started # <<>>
  /\ started[1].outcome = "MAX_PROCESSES_EXCEEDED"

\* No explicit flush between the calls i and j.
NoFlushBetween(i, j) ==
  \A k \in (i + 1)..(j - 1) : validations[k].verdict # FlushMark

\* C32: validatePackage caches its verdict whatever the outcome: a later
\* call for the same name, with no explicit flush in between, returns the
\* verdict of the first and probes no registry.
C32_VerdictCachedForEveryOutcome ==
  \A i \in 1..Len(validations) : \A j \in (i + 1)..Len(validations) :
    (validations[i].name = validations[j].name
       /\ validations[i].verdict # FlushMark /\ NoFlushBetween(i, j))
      => /\ validations[j].verdict = validations[i].verdict
         /\ validations[j].probes = <<>>

\* C34: detectPackageType asks the registries for the name without its
\* version suffix, the fullName of parsePackageName, and answers npm when
\* the npm registry knows it, else python when PyPI knows it, else
\* PACKAGE_NOT_FOUND.
C34_ProbesFullName ==
  \A i \in 1..Len(validations) :
    LET v == validations[i]
        fullName == ParsePackageName(v.name).fullName
    IN (v.detected \notin {"", "REMOTE_SERVER_NOT_SUPPORTED"})
         => /\ \A k \in 1..Len(v.probes) : v.probes[k][2] = fullName
            /\ v.detected = IF fullName \in PackageWorld.npm THEN "npm"
                            ELSE IF fullName \in PackageWorld.pypi
                            THEN "python" ELSE "PACKAGE_NOT_FOUND"

====
